---- MODULE Spec2Model ----
(***************************************************************************)
(* roomctl: the projector link (PJLink client), the power sequencer and    *)
(* the mixer link (DSP408 over RS-232/TCP), as state machines.             *)
(*                                                                         *)
(* Time is counted in deciseconds (ds) for the projector side and in       *)
(* centiseconds for the mixer side.  Text is a sequence of one-character   *)
(* strings, so that parsing and formatting are computed, not assumed.      *)
(***************************************************************************)
EXTENDS Integers, Sequences, FiniteSets, TLC

(***************************************************************************)
(* Bounds of the model.                                                    *)
(***************************************************************************)
\* pjlink_retries is configuration; the model draws it from 0..MaxRetries.
MaxRetries == 2
\* number of public ProjectorLink calls a direct caller makes in SpecPJ.
MaxCalls == 1
\* concurrent API requests to the mixer; each builds its own DSP408Client.
MaxClients == 2
\* power requests accepted in one behaviour
MaxRuns == 2
\* codes tried beyond each end of the code table.
CodeMargin == 3
\* tenths of a dB tried beyond each end of the dB range.
DbMargin == 60

(***************************************************************************)
(* Program constants (deciseconds).                                        *)
(***************************************************************************)
\* timeout: float = 8.0
TimeoutDs == 80
\* asyncio.sleep(0.4 * (attempt + 1))
BackoffDs == 4
\* max(2.0, self.timeout) in the blocking client's handshake
SyncBannerFloorDs == 20
\* "nic_warmup_s": 12
NicWarmupDs == 120
\* _wait_power_state(pj, desired=0, budget_s=90)
BudgetOffDs == 900
\* await asyncio.sleep(1.5)
PollSleepDs == 15
\* ShellyHTTP timeout: float = 5.0
RelayTimeoutDs == 50

(***************************************************************************)
(* Program constants of the mixer link (centiseconds, bytes).              *)
(***************************************************************************)
\* DLE = 0x7B
DLE == 123
\* STX = 0x7D
STX == 125
\* DSP408Client(addr: int = 3)
DeviceAddr == 3
\* DSP408Client(min_step_ms: int = 50)
MinStepCs == 5
\* max(20, int(min_step_ms)) / 1000.0
MinStepFloorCs == 2
\* time.sleep(0.02)
SettleCs == 2
\* get_gain_db: reply_timeout=3.0
GainReplyTimeoutCs == 300
\* DSP408Client(timeout: float = 3.0)
SockTimeoutCs == 300
\* max(self.timeout, 2.0)
ReplyTimeoutFloorCs == 200
CMD_GAIN == 65
CMD_GET_GAIN == 72
CMD_MUTE == 66
CMD_LOAD_PRESET == 67
CMD_INPUT_VOLUME == 68
CMD_OUTPUT_VOLUME == 69
CMD_GET_MUTE == 73
MuteReplyTimeoutCs == 200

(***************************************************************************)
(* Text helpers.                                                           *)
(***************************************************************************)
CR == "\r"
Ws == {" ", "\r", "\n", "\t"}
Digits == {"0", "1", "2", "3", "4", "5", "6", "7", "8", "9"}
HexChars == Digits \cup {"A", "B", "C", "D", "E", "F", "a", "b", "c", "d", "e", "f"}

Max(a, b) == IF a >= b THEN a ELSE b
Min(a, b) == IF a <= b THEN a ELSE b

\* first index >= i of s whose character is not in set cs (Len(s)+1 if none)
RECURSIVE SkipIn(_, _, _)
SkipIn(s, i, cs) == IF i <= Len(s) /\ s[i] \in cs THEN SkipIn(s, i + 1, cs) ELSE i

\* last index <= i of s whose character is not whitespace (0 if none)
RECURSIVE SkipWsBack(_, _)
SkipWsBack(s, i) == IF i >= 1 /\ s[i] \in Ws THEN SkipWsBack(s, i - 1) ELSE i

\* str.strip()
Strip(s) ==
    LET a == SkipIn(s, 1, Ws)
        b == SkipWsBack(s, Len(s))
    IN  IF a > b THEN << >> ELSE SubSeq(s, a, b)

\* s[i..] starts with p
StartsAt(s, i, p) == i + Len(p) - 1 <= Len(s) /\ SubSeq(s, i, i + Len(p) - 1) = p

\* `p in s` for Python strings
Contains(p, s) == \E i \in 1..(Len(s) + 1) : StartsAt(s, i, p)

(***************************************************************************)
(* Wire texts used by the model's device.                                  *)
(***************************************************************************)
PJLINK == <<"P", "J", "L", "I", "N", "K">>
NonceA == <<"A", "B", "C", "D", "E", "F", "0", "1">>
BannerNoAuth == PJLINK \o <<" ", "0", CR>>
BannerAuth == PJLINK \o <<" ", "1", " ">> \o NonceA \o <<CR>>
BannerAuthNoNonce == PJLINK \o <<" ", "1", CR>>
BannerErrA == PJLINK \o <<" ", "E", "R", "R", "A", CR>>
\* lines the pattern of _handshake matches by their first characters only
BannerFlag7 == PJLINK \o <<" ", "7", CR>>
BannerBadNonce == PJLINK \o <<" ", "1", " ", "X", "Y", CR>>
Banners == {BannerNoAuth, BannerAuth, BannerAuthNoNonce, BannerErrA,
            BannerFlag7, BannerBadNonce}

Secret == <<"s", "e", "c", "r", "e", "t">>
Passwords == {<< >>, Secret}

POWR == <<"P", "O", "W", "R">>
CmdPowerOn == POWR \o <<" ", "1">>
CmdPowerOff == POWR \o <<" ", "0">>
CmdPowerQuery == POWR \o <<" ", "?">>

RespOK == <<"%", "1">> \o POWR \o <<"=", "O", "K", CR>>
RespErr == <<"%", "1">> \o POWR \o <<"=", "E", "R", "R", "3", CR>>
RespState(d) == <<"%", "1">> \o POWR \o <<"=", d, CR>>
Responses == {RespOK, RespErr, RespState("0"), RespState("1"), RespState("2")}

(***************************************************************************)
(* The projector as the client sees it.  A device is [c, b, r]:            *)
(*   c  what a connect does: "ok", "refused", "timeout";                   *)
(*   b  the banner line it sends (<< >>: none within the timeout);         *)
(*   r  "answers" (some response line per command) or "silent".            *)
(* "any" / AnyBanner leave the choice open at every attempt.               *)
(***************************************************************************)
AnyBanner == <<"*">>
AnyDevice == [c |-> "any", b |-> AnyBanner, r |-> "any"]
FixedDevices ==
    {[c |-> "refused", b |-> << >>, r |-> "silent"],
     [c |-> "timeout", b |-> << >>, r |-> "silent"],
     [c |-> "ok", b |-> << >>, r |-> "silent"],
     [c |-> "ok", b |-> BannerErrA, r |-> "silent"]}
    \cup [c : {"ok"}, b : {BannerNoAuth, BannerAuth}, r : {"answers", "silent"}]
    \cup {[c |-> "ok", b |-> BannerNoAuth, r |-> "any"]}

Connects(d, o) == d.c \in {"any", o}
Sends(d, b) == d.b \in {AnyBanner, b}
Responds(d, k) == d.r \in {"any", k}

(***************************************************************************)
(* State.                                                                  *)
(***************************************************************************)
VARIABLES
    \* --- ProjectorLink configuration (PJLinkClient.__init__) ---
    client,       \* "async" (pjlink.py) or "sync" (pjlink_sync.py)
    device,       \* what the projector at host:port does: [c, b, r], see Devices
    password,     \* self.password
    retries,      \* self.retries
    \* --- clock ---
    now,          \* ds since the start
    \* --- one _send_cmd call ---
    pjPc,         \* position inside _send_cmd
    cmd,          \* the cmd argument
    attempt,      \* the loop variable
    last_exc,     \* last_exc
    exc,          \* the exception the current attempt raised ("none" if none)
    conn,         \* connection opened by the current attempt: none/open/closed
    connCmds,     \* command payloads written on that connection
    banner,       \* banner line read on that connection (<< >> if none yet)
    need_auth,    \* handshake result
    rand,         \* handshake result
    wire,         \* last command payload written to the projector
    resp,         \* response line read
    raisedExc,    \* exception _send_cmd raised to its caller
    \* --- observation of one call ---
    callStart,    \* now when the call began
    opens,        \* connections opened by the call
    tries,        \* attempts begun by the call
    written,      \* command payloads written by the call, on any connection
    refusedAuth,  \* some attempt of the call met "authentication required" with no password
    \* --- the public operation around _send_cmd ---
    op,           \* "none", "power", "get_power"
    opRes,        \* its result: [k |-> "none" | "bool" | "int" | "raised", v |-> number]
    opExc,        \* the exception it raised ("none" if none)
    calls,        \* calls finished by the direct caller
    \* --- PowerSequencer: one _power_sequence(on) run ---
    seqPc,        \* position inside _power_sequence / _wait_power_state
    seqOn,        \* the on argument
    relayOk,      \* ok, the relay capability's answer ("unset" before)
    statusText,   \* the status sink: stato['text']
    st,           \* st of _wait_power_state
    pollEnd,      \* end of _wait_power_state
    ready,        \* first component of _wait_power_state's result ("unset" before)
    seqExc,       \* exception that left _power_sequence ("none" if none)
    \* --- observation of one run ---
    relayAt,      \* now when the relay call returned (-1 before)
    powerAt,      \* now when pj.power(True) was called (-1 before)
    pollStart,    \* now when _wait_power_state was entered (-1 before)
    \* --- MixerLink: one DSP408Client / RS232TCPClient per API request ---
    mnow,         \* time.monotonic(), in cs
    mx,           \* per client: the RS232TCPClient fields and its worker thread
    rx,           \* per client: bytes the device has sent on its connection, unread
    pend,         \* per client: reply lengths of its queries the device has not answered
    mixer,        \* the mixer: "answers" every query at once, is "silent", or is "free"
    \* --- PJLinkClient.set_input ---
    source,       \* the source argument of the set_input call (<< >> if none)
    \* --- one application of a function to an input ---
    fn,           \* the function applied
    arg,          \* its numeric argument
    txt,          \* its text argument
    res,          \* its result ([k |-> "unset"] before)
    fargs,        \* its integer arguments, where it takes several
    fout,         \* the bytes it built (<< >> before)
    \* --- several _power_sequence tasks on one event loop ---
    reqs,         \* the on arguments of the power requests, in order of arrival
    runs,         \* per task: [on, pc, wake]
    pjLog,        \* the POWR 1 (TRUE) / POWR 0 (FALSE) commands written to the projector
    \* --- POST /scene/spegni_aula ---
    scene,        \* [pc, exc, cmds]: position, exception raised, relay commands issued
    \* --- auth.py ---
    auth          \* [valid, log, ...]: _VALID_TOKENS and what the sessions did

pjCfg == <<client, device, password, retries>>
pjCall == <<pjPc, cmd, attempt, last_exc, exc, conn, connCmds, banner, need_auth,
            rand, wire, resp, raisedExc, callStart, opens, tries, written, refusedAuth>>
pjOp == <<op, opRes, opExc, calls>>
seqVars == <<seqPc, seqOn, relayOk, statusText, st, pollEnd, ready, seqExc,
             relayAt, powerAt, pollStart>>
mxVars == <<mnow, mx, rx, pend, mixer>>
pjSide == <<pjCfg, now, pjCall, pjOp, seqVars>>
fnVars == <<fn, arg, txt, res, fargs, fout>>
runVars == <<reqs, runs, pjLog>>
appVars == <<scene, auth>>

(***************************************************************************)
(* ProjectorLink: pure parts.                                              *)
(***************************************************************************)
\* re.match(r"PJLINK\s+(\d)(?:\s+([0-9A-Fa-f]+))?", text): the index of group 1
\* in text, 0 when the pattern does not match.
handshake_flagAt(text) ==
    IF ~StartsAt(text, 1, PJLINK) THEN 0
    ELSE LET j == SkipIn(text, Len(PJLINK) + 1, Ws)
         IN  IF j > Len(PJLINK) + 1 /\ j <= Len(text) /\ text[j] \in Digits
             THEN j ELSE 0

\* group 2 of the match whose group 1 is at j, "" when the group did not take part
handshake_nonce(text, j) ==
    LET m == SkipIn(text, j + 1, Ws)
        e == SkipIn(text, m, HexChars)
    IN  IF m > j + 1 /\ e > m THEN SubSeq(text, m, e - 1) ELSE << >>

\* _handshake on a banner line that arrived: ok = FALSE is the RuntimeError
handshake(line) ==
    LET text == Strip(line)
        j == handshake_flagAt(text)
    IN  IF j = 0
        THEN [ok |-> FALSE, need_auth |-> FALSE, rand |-> << >>]
        ELSE [ok |-> TRUE, need_auth |-> (text[j] = "1"),
              rand |-> handshake_nonce(text, j)]

\* hashlib.md5(x).hexdigest(): an uninterpreted digest of its input
MD5Hex(x) == <<"md5(">> \o x \o <<")">>

\* mutant: the digest taken over rand + password + payload without its CR
send_cmd_payload_hash_cmd(c, na, rnd, pw) ==
    LET payload == <<"%", "1">> \o c \o <<CR>>
    IN  IF na THEN MD5Hex(rnd \o pw \o <<"%", "1">> \o c) \o payload ELSE payload

\* the bytes _send_cmd writes for cmd c after a handshake (na, rnd), password pw
send_cmd_payload(c, na, rnd, pw) ==
    LET payload == <<"%", "1">> \o c \o <<CR>>
    IN  IF na THEN MD5Hex(rnd \o pw) \o payload ELSE payload

\* mutant: the password check left out
send_cmd_missing_password_unchecked(na, pw) == na /\ pw = << >> /\ ~na

\* `if not self.password` under `if need_auth`
send_cmd_missing_password(na, pw) == na /\ pw = << >>

\* mutant: one attempt more than range(self.retries + 1) has
send_cmd_attempts_one_more(r) == r + 2

\* range(self.retries + 1)
send_cmd_attempts(r) == r + 1

\* mutant: a flat backoff
send_cmd_backoff_flat(a) == BackoffDs

\* asyncio.sleep(0.4 * (attempt + 1)) / time.sleep(0.4 * (attempt + 1))
send_cmd_backoff(a) == BackoffDs * (a + 1)

\* last_exc = e
send_cmd_keep_exc(old, e) == e

\* whether the attempt's connection is closed when the attempt raises after
\* the connection was opened: pjlink_sync.py closes in `finally`, pjlink.py
\* has no close on its except path.
send_cmd_closes_on_error(cl) == cl = "sync"

\* time the handshake waits for a banner that never comes
handshake_wait(cl) == IF cl = "sync" THEN Max(SyncBannerFloorDs, TimeoutDs) ELSE TimeoutDs

(***************************************************************************)
(* ProjectorLink: one _send_cmd call.                                      *)
(***************************************************************************)
\* entering _send_cmd(c): last_exc = None, the loop starts at attempt 0
send_cmd_enter(c) ==
    /\ pjPc = "idle"
    /\ cmd' = c
    /\ attempt' = 0
    /\ last_exc' = "none"
    /\ exc' = "none"
    /\ conn' = "none"
    /\ connCmds' = 0
    /\ banner' = << >>
    /\ need_auth' = FALSE
    /\ rand' = << >>
    /\ wire' = << >>
    /\ resp' = << >>
    /\ raisedExc' = "none"
    /\ callStart' = now
    /\ opens' = 0
    /\ tries' = 0
    /\ written' = 0
    /\ refusedAuth' = FALSE
    /\ pjPc' = IF send_cmd_attempts(retries) > 0 THEN "open" ELSE "raised"

\* leaving _send_cmd: its locals are gone
send_cmd_leave ==
    /\ pjPc' = "idle"
    /\ cmd' = << >>
    /\ attempt' = 0
    /\ last_exc' = "none"
    /\ exc' = "none"
    /\ conn' = "none"
    /\ connCmds' = 0
    /\ banner' = << >>
    /\ need_auth' = FALSE
    /\ rand' = << >>
    /\ wire' = << >>
    /\ resp' = << >>
    /\ raisedExc' = "none"
    /\ callStart' = 0
    /\ opens' = 0
    /\ tries' = 0
    /\ written' = 0
    /\ refusedAuth' = FALSE

\* the attempt raised e after waiting d: control goes to the except clause
send_cmd_fail(e, d, opened) ==
    /\ exc' = e
    /\ now' = now + d
    /\ conn' = IF opened /\ send_cmd_closes_on_error(client) THEN "closed"
               ELSE IF opened THEN "open" ELSE "none"
    /\ pjPc' = "except"

\* r, w = await self._open()  (and the CR written before the banner is read)
send_cmd_open ==
    /\ pjPc = "open"
    /\ tries' = tries + 1
    /\ banner' = << >>
    /\ connCmds' = 0
    /\ \/ /\ Connects(device, "ok")
          /\ conn' = "open"
          /\ opens' = opens + 1
          /\ pjPc' = "handshake"
          /\ exc' = "none"
          /\ UNCHANGED now
       \/ /\ Connects(device, "refused")
          /\ send_cmd_fail("ConnectionRefusedError", 0, FALSE)
          /\ UNCHANGED opens
       \/ /\ Connects(device, "timeout")
          /\ send_cmd_fail("TimeoutError", TimeoutDs, FALSE)
          /\ UNCHANGED opens
    /\ UNCHANGED <<fnVars, runVars, appVars, source, mxVars, pjCfg, cmd, attempt, last_exc, need_auth, rand, wire, resp,
                   raisedExc, callStart, written, refusedAuth, pjOp, seqVars>>

\* need_auth, rand = await self._handshake(r, w)
send_cmd_handshake ==
    /\ pjPc = "handshake"
    /\ \/ /\ Sends(device, << >>)
          /\ send_cmd_fail("TimeoutError", handshake_wait(client), TRUE)
          /\ UNCHANGED <<banner, need_auth, rand>>
       \/ \E b \in Banners :
            /\ Sends(device, b)
            /\ banner' = b
            /\ IF handshake(b).ok
               THEN /\ need_auth' = handshake(b).need_auth
                    /\ rand' = handshake(b).rand
                    /\ pjPc' = "write"
                    /\ UNCHANGED <<exc, now, conn>>
               ELSE /\ send_cmd_fail("BannerError", 0, TRUE)
                    /\ UNCHANGED <<need_auth, rand>>
    /\ UNCHANGED <<fnVars, runVars, appVars, source, mxVars, pjCfg, cmd, attempt, last_exc, connCmds, wire, resp, raisedExc,
                   callStart, opens, tries, written, refusedAuth, pjOp, seqVars>>

\* the password check, then w.write(payload.encode()); await w.drain()
send_cmd_write ==
    /\ pjPc = "write"
    /\ IF send_cmd_missing_password(need_auth, password)
       THEN \* w.close(); await w.wait_closed(); raise RuntimeError
            /\ exc' = "NoPassword"
            /\ conn' = "closed"
            /\ pjPc' = "except"
            /\ UNCHANGED <<wire, connCmds, written>>
       ELSE /\ wire' = send_cmd_payload(cmd, need_auth, rand, password)
            /\ connCmds' = connCmds + 1
            /\ written' = written + 1
            /\ pjPc' = "resp"
            /\ UNCHANGED <<exc, conn>>
    /\ refusedAuth' = (refusedAuth \/ (need_auth /\ password = << >>))
    /\ UNCHANGED <<fnVars, runVars, appVars, source, mxVars, pjCfg, now, cmd, attempt, last_exc, banner, need_auth, rand, resp,
                   raisedExc, callStart, opens, tries, pjOp, seqVars>>

\* resp = await asyncio.wait_for(r.readuntil(b"\r"), self.timeout); w.close()
send_cmd_response ==
    /\ pjPc = "resp"
    /\ \/ /\ Responds(device, "silent")
          /\ send_cmd_fail("TimeoutError", TimeoutDs, TRUE)
          /\ UNCHANGED resp
       \/ \E r \in Responses :
            /\ Responds(device, "answers")
            /\ resp' = Strip(r)
            /\ conn' = "closed"
            /\ pjPc' = "return"
            /\ UNCHANGED <<exc, now>>
    /\ UNCHANGED <<fnVars, runVars, appVars, source, mxVars, pjCfg, cmd, attempt, last_exc, connCmds, banner, need_auth, rand,
                   wire, raisedExc, callStart, opens, tries, written, refusedAuth,
                   pjOp, seqVars>>

\* except Exception as e: last_exc = e; sleep(backoff); then the next attempt,
\* or after the last one: raise last_exc
send_cmd_except ==
    /\ pjPc = "except"
    /\ last_exc' = send_cmd_keep_exc(last_exc, exc)
    /\ now' = now + send_cmd_backoff(attempt)
    /\ attempt' = attempt + 1
    /\ IF attempt + 1 < send_cmd_attempts(retries)
       THEN /\ pjPc' = "open"
            /\ UNCHANGED raisedExc
       ELSE /\ pjPc' = "raised"
            /\ raisedExc' = last_exc'
    /\ UNCHANGED <<fnVars, runVars, appVars, source, mxVars, pjCfg, cmd, exc, conn, connCmds, banner, need_auth, rand, wire, resp,
                   callStart, opens, tries, written, refusedAuth, pjOp, seqVars>>

send_cmd_step ==
    \/ send_cmd_open
    \/ send_cmd_handshake
    \/ send_cmd_write
    \/ send_cmd_response
    \/ send_cmd_except

(***************************************************************************)
(* ProjectorLink: the public operations.                                   *)
(***************************************************************************)
OKText == <<"O", "K">>
ERRText == <<"E", "R", "R">>
NoRes == [k |-> "none", v |-> 0]
BoolRes(b) == [k |-> "bool", v |-> IF b THEN 1 ELSE 0]
IntRes(n) == [k |-> "int", v |-> n]
Raised == [k |-> "raised", v |-> 0]

DigitVal(c) ==
    CASE c = "0" -> 0 [] c = "1" -> 1 [] c = "2" -> 2 [] c = "3" -> 3 [] c = "4" -> 4
      [] c = "5" -> 5 [] c = "6" -> 6 [] c = "7" -> 7 [] c = "8" -> 8 [] c = "9" -> 9

\* resp.endswith(p)
EndsWith(s, p) == Len(s) >= Len(p) /\ SubSeq(s, Len(s) - Len(p) + 1, Len(s)) = p

\* PJLinkClient.power: "OK" in resp
\* PJLinkSocketClient.power: True if resp ends "=OK", raises if "ERR" in resp
power_result(cl, r) ==
    IF cl = "async" THEN BoolRes(Contains(OKText, r))
    ELSE IF EndsWith(r, <<"=">> \o OKText) THEN BoolRes(TRUE)
    ELSE IF Contains(ERRText, r) THEN Raised
    ELSE BoolRes(FALSE)

\* re.search(r"POWR=(\d)", resp): index of the digit of the first match, 0 if none
get_power_search(r) ==
    LET hits == {i \in 1..Len(r) :
                    /\ StartsAt(r, i, POWR \o <<"=">>)
                    /\ i + 5 <= Len(r)
                    /\ r[i + 5] \in Digits}
    IN  IF hits = {} THEN 0 ELSE (CHOOSE i \in hits : \A j \in hits : i <= j) + 5

\* resp.split("=")[1] when resp has a "=" (the text between the first "=" and the next)
SplitEq1(r) ==
    LET a == CHOOSE i \in 1..Len(r) : r[i] = "=" /\ \A j \in 1..(i - 1) : r[j] # "="
        rest == SubSeq(r, a + 1, Len(r))
        b == SkipIn(rest, 1, {c \in {rest[i] : i \in 1..Len(rest)} : c # "="})
    IN  SubSeq(rest, 1, b - 1)

RECURSIVE DecimalOf(_)
DecimalOf(ds) == IF ds = << >> THEN 0
                 ELSE 10 * DecimalOf(SubSeq(ds, 1, Len(ds) - 1)) + DigitVal(ds[Len(ds)])

\* PJLinkClient.get_power: int(m.group(1)) if m else None
\* PJLinkSocketClient.get_power: int(resp.split("=")[1]) if resp starts "%1POWR=",
\* and a RuntimeError for every other response
get_power_result(cl, r) ==
    IF cl = "async"
    THEN IF get_power_search(r) = 0 THEN NoRes
         ELSE IntRes(DigitVal(r[get_power_search(r)]))
    ELSE IF StartsAt(r, 1, <<"%", "1">> \o POWR \o <<"=">>)
            /\ SplitEq1(r) # << >>
            /\ \A i \in 1..Len(SplitEq1(r)) : SplitEq1(r)[i] \in Digits
         THEN IntRes(DecimalOf(SplitEq1(r)))
         ELSE Raised

\* PJLinkClient.set_input: "OK" in resp
set_input_result(r) == BoolRes(Contains(OKText, r))

op_result(o, cl, r) ==
    IF o = "power" THEN power_result(cl, r)
    ELSE IF o = "set_input" THEN set_input_result(r)
    ELSE get_power_result(cl, r)

\* what the public operation o gives its caller once _send_cmd has returned or raised
op_outcome ==
    IF pjPc = "raised" THEN [res |-> Raised, exc |-> raisedExc]
    ELSE LET x == op_result(op, client, resp)
         IN  [res |-> x, exc |-> IF x = Raised THEN "RuntimeError" ELSE "none"]

(***************************************************************************)
(* A direct caller of ProjectorLink (no sequencer).                        *)
(***************************************************************************)
api_power ==
    /\ seqPc = "off" /\ op = "none" /\ calls < MaxCalls
    /\ \E on \in BOOLEAN : send_cmd_enter(IF on THEN CmdPowerOn ELSE CmdPowerOff)
    /\ op' = "power"
    /\ opRes' = NoRes /\ opExc' = "none"
    /\ UNCHANGED <<fnVars, runVars, appVars, source, mxVars, pjCfg, now, calls, seqVars>>

api_get_power ==
    /\ seqPc = "off" /\ op = "none" /\ calls < MaxCalls
    /\ send_cmd_enter(CmdPowerQuery)
    /\ op' = "get_power"
    /\ opRes' = NoRes /\ opExc' = "none"
    /\ UNCHANGED <<fnVars, runVars, appVars, source, mxVars, pjCfg, now, calls, seqVars>>

api_return ==
    /\ seqPc = "off" /\ op # "none" /\ pjPc \in {"return", "raised"}
    /\ opRes' = op_outcome.res
    /\ opExc' = op_outcome.exc
    /\ op' = "none"
    /\ calls' = calls + 1
    /\ send_cmd_leave
    /\ UNCHANGED <<fnVars, runVars, appVars, source, mxVars, pjCfg, now, seqVars>>

(***************************************************************************)
(* PJLinkClient.set_input and its direct caller.                           *)
(***************************************************************************)
LowerCase == <<"a", "b", "c", "d", "e", "f", "g", "h", "i", "j", "k", "l", "m",
               "n", "o", "p", "q", "r", "s", "t", "u", "v", "w", "x", "y", "z">>
UpperCase == <<"A", "B", "C", "D", "E", "F", "G", "H", "I", "J", "K", "L", "M",
               "N", "O", "P", "Q", "R", "S", "T", "U", "V", "W", "X", "Y", "Z">>

\* str.upper()
upper(s) ==
    [i \in 1..Len(s) |->
        IF \E k \in 1..26 : LowerCase[k] = s[i]
        THEN UpperCase[CHOOSE k \in 1..26 : LowerCase[k] = s[i]]
        ELSE s[i]]

Computer1 == <<"C", "o", "m", "p", "u", "t", "e", "r", "1">>
Computer2 == <<"C", "o", "m", "p", "u", "t", "e", "r", "2">>
HDMI1 == <<"H", "D", "M", "I", "1">>
HDMI2 == <<"H", "D", "M", "I", "2">>
HDBaseT == <<"H", "D", "B", "a", "s", "e", "T">>

\* self.input_map.get(key): the code, << >> for None
input_map_get(key) ==
    CASE key = Computer1 -> <<"1", "1">>
      [] key = Computer2 -> <<"1", "2">>
      [] key = HDMI1 -> <<"3", "2">>
      [] key = HDMI2 -> <<"3", "3">>
      [] key = HDBaseT -> <<"5", "6">>
      [] OTHER -> << >>

\* the key set_input looks up: source.upper()
set_input_key(src) == upper(src)

\* code = self.input_map.get(source.upper())
set_input_code(src) == input_map_get(set_input_key(src))

INPT == <<"I", "N", "P", "T">>
\* f"INPT {code}"
CmdInput(code) == INPT \o <<" ">> \o code

\* sources a caller passes: the five of the map, one in lower case, one unmapped
MappedSources == {Computer1, Computer2, HDMI1, HDMI2, HDBaseT}
Sources == MappedSources \cup {<<"h", "d", "m", "i", "1">>, <<"V", "G", "A">>}

\* pj.set_input(source): the ValueError before _send_cmd, or _send_cmd
api_set_input ==
    /\ seqPc = "off" /\ op = "none" /\ calls < MaxCalls
    /\ \E src \in Sources :
         /\ source' = src
         /\ IF set_input_code(src) = << >>
            THEN /\ opRes' = Raised /\ opExc' = "ValueError"
                 /\ op' = "none"
                 /\ calls' = calls + 1
                 /\ UNCHANGED pjCall
            ELSE /\ send_cmd_enter(CmdInput(set_input_code(src)))
                 /\ op' = "set_input"
                 /\ opRes' = NoRes /\ opExc' = "none"
                 /\ UNCHANGED calls
    /\ UNCHANGED <<fnVars, runVars, appVars, mxVars, pjCfg, now, seqVars>>

(***************************************************************************)
(* PowerSequencer: _power_sequence(on) and _wait_power_state.              *)
(***************************************************************************)
TxtMainsOn == "Alimentazione --> ON"
TxtProjectorOn == "Proiettore -> ON"
TxtError == "Errore accensione proiettore"
TxtReady == "Sistema pronto"

\* whether an exception raised by ShellyHTTP.set_relay is caught inside
\* _power_sequence: line 128 stands outside every try block
power_sequence_catches_relay == FALSE

\* mutant: the warm-up cut short
power_sequence_nic_warmup_short == NicWarmupDs - 1

\* nic_warmup = int(pconf.get("nic_warmup_s", 12))
power_sequence_nic_warmup == NicWarmupDs

\* mutant: a budget one poll short
wait_power_state_budget_short == BudgetOffDs - PollSleepDs

\* budget_s of the power-off wait
wait_power_state_budget == BudgetOffDs

\* `while loop.time() < end`
wait_power_state_continue(t, e) == t < e

wait_power_state_matches_any(s, desired) == s # NoRes

\* `if st == desired` (None equals no desired state)
wait_power_state_matches(s, desired) == s = desired

power_sequence_power_text_on(raised) == TxtProjectorOn

\* the status text after pj.power(True): the try body's or the except's
power_sequence_power_text(raised) == IF raised THEN TxtError ELSE TxtProjectorOn

\* background.add_task(_power_sequence, body.on)
power_sequence_start ==
    /\ seqPc = "idle"
    /\ \E on \in BOOLEAN :
         /\ seqOn' = on
         /\ seqPc' = IF on THEN "relay" ELSE "off_power"
    /\ UNCHANGED <<fnVars, runVars, appVars, source, mxVars, pjCfg, now, pjCall, pjOp, relayOk, statusText, st, pollEnd, ready,
                   seqExc, relayAt, powerAt, pollStart>>

\* 1) ok = await shelly_main.set_relay(ch_main, True): HTTP 200, another status,
\*    or an httpx transport error (refused at once, or after the client timeout)
power_sequence_relay ==
    /\ seqPc = "relay"
    /\ \/ \E ok \in BOOLEAN :
            /\ relayOk' = IF ok THEN "true" ELSE "false"
            /\ statusText' = TxtMainsOn
            /\ relayAt' = now
            /\ seqPc' = "warmup"
            /\ UNCHANGED <<now, seqExc>>
       \/ \E d \in {0, RelayTimeoutDs} :
            /\ now' = now + d
            /\ relayOk' = "raised"
            /\ IF power_sequence_catches_relay
               THEN /\ statusText' = TxtMainsOn
                    /\ relayAt' = now'
                    /\ seqPc' = "warmup"
                    /\ UNCHANGED seqExc
               ELSE /\ seqExc' = "TransportError"
                    /\ seqPc' = "raised"
                    /\ UNCHANGED <<statusText, relayAt>>
    /\ UNCHANGED <<fnVars, runVars, appVars, source, mxVars, pjCfg, pjCall, pjOp, seqOn, st, pollEnd, ready, powerAt, pollStart>>

\* 2) await asyncio.sleep(nic_warmup)
power_sequence_warmup ==
    /\ seqPc = "warmup"
    /\ now' = now + power_sequence_nic_warmup
    /\ seqPc' = "power"
    /\ UNCHANGED <<fnVars, runVars, appVars, source, mxVars, pjCfg, pjCall, pjOp, seqOn, relayOk, statusText, st, pollEnd, ready,
                   seqExc, relayAt, powerAt, pollStart>>

\* 3) okp = await pj.power(True)
power_sequence_power ==
    /\ seqPc = "power"
    /\ send_cmd_enter(CmdPowerOn)
    /\ op' = "power"
    /\ powerAt' = now
    /\ seqPc' = "power_wait"
    /\ UNCHANGED <<fnVars, runVars, appVars, source, mxVars, pjCfg, now, opRes, opExc, calls, seqOn, relayOk, statusText, st,
                   pollEnd, ready, seqExc, relayAt, pollStart>>

\* the try/except around pj.power(True)
power_sequence_power_done ==
    /\ seqPc = "power_wait"
    /\ pjPc \in {"return", "raised"}
    /\ statusText' = power_sequence_power_text(op_outcome.res = Raised)
    /\ op' = "none"
    /\ send_cmd_leave
    /\ seqPc' = "done"
    /\ UNCHANGED <<fnVars, runVars, appVars, source, mxVars, pjCfg, now, opRes, opExc, calls, seqOn, relayOk, st, pollEnd, ready, seqExc,
                   relayAt, powerAt, pollStart>>

\* POWER OFF: okp = await pj.power(False)
power_sequence_off ==
    /\ seqPc = "off_power"
    /\ send_cmd_enter(CmdPowerOff)
    /\ op' = "power"
    /\ seqPc' = "off_wait"
    /\ UNCHANGED <<fnVars, runVars, appVars, source, mxVars, pjCfg, now, opRes, opExc, calls, seqOn, relayOk, statusText, st,
                   pollEnd, ready, seqExc, relayAt, powerAt, pollStart>>

\* the try/except around pj.power(False), then entering _wait_power_state:
\* end = loop.time() + budget_s; st = 4
power_sequence_off_done ==
    /\ seqPc = "off_wait"
    /\ pjPc \in {"return", "raised"}
    /\ op' = "none"
    /\ send_cmd_leave
    /\ pollEnd' = now + wait_power_state_budget
    /\ pollStart' = now
    /\ st' = IntRes(4)
    /\ seqPc' = "poll_test"
    /\ UNCHANGED <<fnVars, runVars, appVars, source, mxVars, pjCfg, now, opRes, opExc, calls, seqOn, relayOk, statusText, ready,
                   seqExc, relayAt, powerAt>>

\* while loop.time() < end: st = await pj.get_power() ... ; return False, st
wait_power_state_test ==
    /\ seqPc = "poll_test"
    /\ IF wait_power_state_continue(now, pollEnd)
       THEN /\ send_cmd_enter(CmdPowerQuery)
            /\ op' = "get_power"
            /\ seqPc' = "poll_wait"
            /\ UNCHANGED ready
       ELSE /\ ready' = "false"
            /\ seqPc' = "done"
            /\ UNCHANGED <<pjCall, op>>
    /\ UNCHANGED <<fnVars, runVars, appVars, source, mxVars, pjCfg, now, opRes, opExc, calls, seqOn, relayOk, statusText, st,
                   pollEnd, seqExc, relayAt, powerAt, pollStart>>

\* the try/except around get_power inside the loop (desired = 0)
wait_power_state_polled ==
    /\ seqPc = "poll_wait"
    /\ pjPc \in {"return", "raised"}
    /\ op' = "none"
    /\ send_cmd_leave
    /\ IF op_outcome.res = Raised
       THEN /\ statusText' = TxtError
            /\ seqPc' = "poll_sleep"
            /\ UNCHANGED <<st, ready>>
       ELSE /\ st' = op_outcome.res
            /\ IF wait_power_state_matches(op_outcome.res, IntRes(0))
               THEN /\ statusText' = TxtReady
                    /\ ready' = "true"
                    /\ seqPc' = "done"
               ELSE /\ seqPc' = "poll_sleep"
                    /\ UNCHANGED <<statusText, ready>>
    /\ UNCHANGED <<fnVars, runVars, appVars, source, mxVars, pjCfg, now, opRes, opExc, calls, seqOn, relayOk, pollEnd, seqExc,
                   relayAt, powerAt, pollStart>>

\* await asyncio.sleep(1.5); stato['text'] = 'Errore accensione proiettore'
wait_power_state_sleep ==
    /\ seqPc = "poll_sleep"
    /\ now' = now + PollSleepDs
    /\ statusText' = TxtError
    /\ seqPc' = "poll_test"
    /\ UNCHANGED <<fnVars, runVars, appVars, source, mxVars, pjCfg, pjCall, pjOp, seqOn, relayOk, st, pollEnd, ready, seqExc,
                   relayAt, powerAt, pollStart>>

(***************************************************************************)
(* Several power requests: every POST /projector/power adds a              *)
(* _power_sequence task to the event loop; tasks interleave at their       *)
(* awaits.  Each task has its own PJLinkClient; a power call is the        *)
(* command reaching the projector (or not), then the call's end.           *)
(***************************************************************************)
Runs == 1..MaxRuns
NoRun == [on |-> FALSE, pc |-> "none", wake |-> 0]

projector_power_accepts_one(rs) == \A i \in Runs : rs[i].pc \in {"none", "done", "raised"}

\* projector_power adds the task whatever the tasks before it are doing
projector_power_accepts(rs) == TRUE

SetRun(i, r) == runs' = [runs EXCEPT ![i] = r]

\* tasks that have started and not ended
InProgress == {i \in Runs : runs[i].pc \notin {"none", "done", "raised"}}

\* background.add_task(_power_sequence, body.on), and the task's start
projector_power ==
    /\ Len(reqs) < MaxRuns
    /\ projector_power_accepts(runs)
    /\ \E on \in BOOLEAN :
         /\ reqs' = Append(reqs, on)
         /\ SetRun(Len(reqs) + 1, [NoRun EXCEPT !.on = on,
                                                !.pc = IF on THEN "relay" ELSE "off_power"])
    /\ UNCHANGED <<pjLog, now, pjCfg, pjCall, pjOp, seqVars, mxVars, fnVars, appVars, source>>

\* ok = await shelly_main.set_relay(ch_main, True), outside every try; then
\* await asyncio.sleep(nic_warmup) begins
task_relay(i) ==
    /\ runs[i].pc = "relay"
    /\ \/ SetRun(i, [runs[i] EXCEPT !.pc = "warmup",
                                     !.wake = now + power_sequence_nic_warmup])
       \/ SetRun(i, [runs[i] EXCEPT !.pc = "raised"])
    /\ UNCHANGED <<reqs, pjLog, now, pjCfg, pjCall, pjOp, seqVars, mxVars, fnVars, appVars, source>>

\* okp = await pj.power(True) once the sleep is over: POWR 1 is written to
\* the projector, or the call fails before it is
task_power(i) ==
    /\ runs[i].pc = "warmup"
    /\ now >= runs[i].wake
    /\ SetRun(i, [runs[i] EXCEPT !.pc = "power_wait", !.wake = 0])
    /\ \/ pjLog' = Append(pjLog, TRUE)
       \/ UNCHANGED pjLog
    /\ UNCHANGED <<reqs, now, pjCfg, pjCall, pjOp, seqVars, mxVars, fnVars, appVars, source>>

\* pj.power(True) returns or raises; the task ends
task_power_done(i) ==
    /\ runs[i].pc = "power_wait"
    /\ SetRun(i, [runs[i] EXCEPT !.pc = "done"])
    /\ UNCHANGED <<reqs, pjLog, now, pjCfg, pjCall, pjOp, seqVars, mxVars, fnVars, appVars, source>>

\* okp = await pj.power(False): POWR 0 is written to the projector, or the
\* call fails before it is
task_off(i) ==
    /\ runs[i].pc = "off_power"
    /\ SetRun(i, [runs[i] EXCEPT !.pc = "off_wait"])
    /\ \/ pjLog' = Append(pjLog, FALSE)
       \/ UNCHANGED pjLog
    /\ UNCHANGED <<reqs, now, pjCfg, pjCall, pjOp, seqVars, mxVars, fnVars, appVars, source>>

\* pj.power(False) returns or raises; _wait_power_state begins
task_off_done(i) ==
    /\ runs[i].pc = "off_wait"
    /\ SetRun(i, [runs[i] EXCEPT !.pc = "wait_state"])
    /\ UNCHANGED <<reqs, pjLog, now, pjCfg, pjCall, pjOp, seqVars, mxVars, fnVars, appVars, source>>

\* _wait_power_state returns, after a poll that gave the desired state or at
\* the end of its budget; it writes no power command
task_wait_power_state(i) ==
    /\ runs[i].pc = "wait_state"
    /\ SetRun(i, [runs[i] EXCEPT !.pc = "done"])
    /\ UNCHANGED <<reqs, pjLog, now, pjCfg, pjCall, pjOp, seqVars, mxVars, fnVars, appVars, source>>

\* tasks inside asyncio.sleep
Sleeping == {i \in Runs : runs[i].pc = "warmup" /\ runs[i].wake > now}

\* time passes until the next sleep ends
tasks_clock ==
    /\ Sleeping # {}
    /\ now' = CHOOSE t \in {runs[i].wake : i \in Sleeping} :
                 \A j \in Sleeping : t <= runs[j].wake
    /\ UNCHANGED <<runVars, appVars, pjCfg, pjCall, pjOp, seqVars, mxVars, fnVars, source>>

(***************************************************************************)
(* MixerLink: pure parts.                                                  *)
(***************************************************************************)
Clients == 1..MaxClients

code_to_db_mid_half(code) ==
    IF code <= 80 THEN -600 + code * 5
    ELSE IF code <= 280 THEN -200 + (code - 80) * 5
    ELSE code - 280

\* code_to_db, in tenths of a dB (defined for 0 <= code <= 400)
code_to_db(code) ==
    IF code <= 80 THEN -600 + code * 5
    ELSE IF code <= 280 THEN -200 + (code - 80)
    ELSE code - 280

\* `if not (0 <= code <= 400): raise ValueError`
code_to_db_raises_above(code) == code > 400

code_to_db_raises(code) == ~(0 <= code /\ code <= 400)

\* a call of code_to_db: the ValueError or the value
code_to_db_call(code) ==
    IF code_to_db_raises(code) THEN Raised ELSE IntRes(code_to_db(code))

\* round(n / d) for d > 0: the nearest integer, a tie goes to the even one
RoundHalfEven(n, d) ==
    LET q == n \div d
        r == n % d
    IN  IF 2 * r < d THEN q
        ELSE IF 2 * r > d THEN q + 1
        ELSE IF q % 2 = 0 THEN q ELSE q + 1

db_to_code_clamp_none(db) == db

\* `if db < -60.0: db = -60.0`, `if db > +12.0: db = +12.0` (tenths of a dB)
db_to_code_clamp(db) == IF db < -600 THEN -600 ELSE IF db > 120 THEN 120 ELSE db

db_to_code_segments_no_offset(db) ==
    IF db <= -200 THEN RoundHalfEven(db + 600, 5)
    ELSE IF db <= 0 THEN RoundHalfEven(80 + (db + 200), 1)
    ELSE RoundHalfEven(db, 1)

\* int(round((db + 60.0) / 0.5)), int(round(80 + (db + 20.0) / 0.1)),
\* int(round(280 + (db - 0.0) / 0.1))
db_to_code_segments(db) ==
    IF db <= -200 THEN RoundHalfEven(db + 600, 5)
    ELSE IF db <= 0 THEN RoundHalfEven(80 + (db + 200), 1)
    ELSE RoundHalfEven(280 + db, 1)

db_to_code(db) == db_to_code_segments(db_to_code_clamp(db))

\* int(round(n / d)) where n / d comes out of a binary floating-point division:
\* off a tie the nearest integer; on a tie the quotient may fall on either
\* side of the half, so either neighbour
RoundFloat(n, d) ==
    IF 2 * (n % d) = d THEN {n \div d, n \div d + 1} ELSE {RoundHalfEven(n, d)}

db_to_code_grid_floor(h) ==
    LET c == IF h < -1200 THEN -1200 ELSE IF h > 240 THEN 240 ELSE h
    IN  IF c <= -400 THEN {((c + 1200) \div 20) * 2}
        ELSE IF c <= 0 THEN {((160 + c + 400) \div 6) * 3}
        ELSE {((560 + c) \div 6) * 3}

\* db_to_code for db = h * 0.05 dB (h counts twentieths of a dB): the codes it
\* can return
db_to_code_grid(h) ==
    LET c == IF h < -1200 THEN -1200 ELSE IF h > 240 THEN 240 ELSE h
    IN  IF c <= -400 THEN RoundFloat(c + 1200, 10)
        ELSE IF c <= 0 THEN RoundFloat(160 + (c + 400), 2)
        ELSE RoundFloat(560 + c, 2)

build_packet_unmasked(addr, c, d1, d2, d3) == <<DLE, STX, addr, c, d1, d2, d3, STX, DLE>>

\* RS232TCPClient._build_packet
build_packet(addr, c, d1, d2, d3) ==
    <<DLE, STX, addr % 256, c % 256, d1 % 256, d2 % 256, d3 % 256, STX, DLE>>

\* RS232TCPClient._parse_packet (a reply of one or more bytes)
parse_packet(pkt) == IF Len(pkt) = 1 THEN <<pkt[1], 0>> ELSE <<pkt[1], pkt[2]>>

\* CMDS_WITH_REPLY = {0x48, 0x49, 0x4A}
CMDS_WITH_REPLY == {72, 73, 74}

\* self.min_step = max(20, int(min_step_ms)) / 1000.0
min_step == Max(MinStepFloorCs, MinStepCs)

\* mutant: the wait before a send left out
send_command_wait_none(t, last) == 0

\* `delta = now - self._last_send_ts; if delta < self.min_step: sleep(min_step - delta)`:
\* the time send_command sleeps before a send, having read the clock as t
send_command_wait(t, last) == IF t - last < min_step THEN min_step - (t - last) ELSE 0

\* DSP408Client.bus_map
bus_map == [in_a |-> [out |-> FALSE, ch |-> 0],
            out0 |-> [out |-> TRUE, ch |-> 0],
            out1 |-> [out |-> TRUE, ch |-> 1],
            out2 |-> [out |-> TRUE, ch |-> 2],
            out3 |-> [out |-> TRUE, ch |-> 3]]
\* the order of bus_map.items()
BusOrder == <<"in_a", "out0", "out1", "out2", "out3">>

\* the arguments with which a call of the low-level client reaches send_command
\* (reply = "default" stands for expect_reply=None, timeout = -1 for reply_timeout=None)
NoCall == [fn |-> "none", out |-> FALSE, ch |-> 0, arg |-> 0]
get_gain_db_call(is_out, ch) == [fn |-> "get_gain_db", out |-> is_out, ch |-> ch, arg |-> 0]
set_gain_call(is_out, ch, sign) == [fn |-> "set_gain", out |-> is_out, ch |-> ch, arg |-> sign]

\* set_mute(is_output, channel, mute): arg is 1 for mute=True
set_mute_call(is_out, ch, mute) ==
    [fn |-> "set_mute", out |-> is_out, ch |-> ch, arg |-> IF mute THEN 1 ELSE 0]
get_mute_call(is_out, ch) == [fn |-> "get_mute", out |-> is_out, ch |-> ch, arg |-> 0]

\* recall_preset(user, preset_index): out carries user, ch the index
recall_preset_call(user, idx) == [fn |-> "recall_preset", out |-> user, ch |-> idx, arg |-> 0]
\* set_input_volume_db(channel, db), set_output_volume_db(channel, db): arg is db
set_input_volume_db_call(ch, db) ==
    [fn |-> "set_input_volume_db", out |-> FALSE, ch |-> ch, arg |-> db]
set_output_volume_db_call(ch, db) ==
    [fn |-> "set_output_volume_db", out |-> TRUE, ch |-> ch, arg |-> db]

\* send_command(cmd, answ_byte=n, expect_echo=echo) called directly, every other
\* argument at its default: out carries expect_echo, ch answ_byte, arg cmd
send_command_call(c, n, echo) == [fn |-> "send_command", out |-> echo, ch |-> n, arg |-> c]

\* hi = (code >> 8) & 0xFF; lo = code & 0xFF
volume_hi(code) == (code \div 256) % 256
volume_lo(code) == code % 256

send_command_args(call) ==
    IF call.fn = "send_command"
    THEN [cmd |-> call.arg, d1 |-> 0, d2 |-> 0, d3 |-> 0, answ_byte |-> call.ch,
          reply |-> "default", echo |-> call.out, timeout |-> -1]
    ELSE IF call.fn = "recall_preset"
    THEN [cmd |-> CMD_LOAD_PRESET, d1 |-> IF call.out THEN 1 ELSE 0, d2 |-> call.ch % 256,
          d3 |-> 0, answ_byte |-> 1, reply |-> "no", echo |-> FALSE, timeout |-> -1]
    ELSE IF call.fn \in {"set_input_volume_db", "set_output_volume_db"}
    THEN [cmd |-> IF call.out THEN CMD_OUTPUT_VOLUME ELSE CMD_INPUT_VOLUME,
          d1 |-> call.ch % 256, d2 |-> volume_hi(db_to_code(call.arg)),
          d3 |-> volume_lo(db_to_code(call.arg)), answ_byte |-> 1, reply |-> "no",
          echo |-> FALSE, timeout |-> -1]
    ELSE IF call.fn = "get_gain_db"
    THEN [cmd |-> CMD_GET_GAIN, d1 |-> IF call.out THEN 1 ELSE 0, d2 |-> call.ch % 256,
          d3 |-> 0, answ_byte |-> 2, reply |-> "yes", echo |-> FALSE,
          timeout |-> GainReplyTimeoutCs]
    ELSE IF call.fn = "get_mute"
    THEN [cmd |-> CMD_GET_MUTE, d1 |-> IF call.out THEN 1 ELSE 0, d2 |-> call.ch % 256,
          d3 |-> 0, answ_byte |-> 1, reply |-> "yes", echo |-> FALSE,
          timeout |-> MuteReplyTimeoutCs]
    ELSE IF call.fn = "set_mute"
    THEN \* d3 = 1 if mute else 0; expect_echo keeps its default
         [cmd |-> CMD_MUTE, d1 |-> IF call.out THEN 1 ELSE 0, d2 |-> call.ch % 256,
          d3 |-> IF call.arg # 0 THEN 1 ELSE 0, answ_byte |-> 1, reply |-> "no",
          echo |-> FALSE, timeout |-> -1]
    ELSE \* set_gain: d3 = 1 if sign else 0
         [cmd |-> CMD_GAIN, d1 |-> IF call.out THEN 1 ELSE 0, d2 |-> call.ch % 256,
          d3 |-> IF call.arg # 0 THEN 1 ELSE 0, answ_byte |-> 1, reply |-> "no",
          echo |-> FALSE, timeout |-> -1]

\* `if expect_reply is None: expect_reply = (cmd in self.CMDS_WITH_REPLY)`
send_command_expects(a) ==
    IF a.reply = "default" THEN a.cmd \in CMDS_WITH_REPLY ELSE a.reply = "yes"

\* total_timeout = reply_timeout if reply_timeout is not None else max(self.timeout, 2.0)
send_command_total_timeout(a) ==
    IF a.timeout # -1 THEN a.timeout ELSE Max(SockTimeoutCs, ReplyTimeoutFloorCs)

\* get_gain_db's decoding of the two reply bytes, in tenths of a dB
get_gain_db_code_unclamped(r_d2, r_d3) == r_d2 * 256 + r_d3

\* code = (r_d2 << 8) | r_d3; if code > 400 and r_d2 == 0: code = r_d3;
\* code = max(0, min(400, code))
get_gain_db_code(r_d2, r_d3) ==
    LET code0 == r_d2 * 256 + r_d3
        code1 == IF code0 > 400 /\ r_d2 = 0 THEN r_d3 ELSE code0
    IN  Max(0, Min(400, code1))

get_gain_db_decode(r_d2, r_d3) ==
    IF r_d2 = 0 /\ r_d3 = 0 THEN 0
    ELSE code_to_db(get_gain_db_code(r_d2, r_d3))

\* mutant: the reply 00 00 decoded through the table like every other reply
get_gain_db_result_no_zero_case(r_d2, r_d3) ==
    code_to_db_call(get_gain_db_code(r_d2, r_d3))

\* get_gain_db once send_command has returned the two bytes: the value, or the
\* ValueError of code_to_db
get_gain_db_result(r_d2, r_d3) ==
    IF r_d2 = 0 /\ r_d3 = 0 THEN IntRes(0)
    ELSE code_to_db_call(get_gain_db_code(r_d2, r_d3))

\* get_mute: `if r is None: return False`, else bool(r_d2)
get_mute_result(r) == IF r = << >> THEN FALSE ELSE r[1] # 0

apply_gain_delta_new_unclamped(cur, sign) == cur + (IF sign > 0 THEN 10 ELSE -10)

\* apply_gain_delta: new = max(-60.0, min(+12.0, cur + (1.0 if sign > 0 else -1.0)))
apply_gain_delta_new(cur, sign) ==
    Max(-600, Min(120, cur + (IF sign > 0 THEN 10 ELSE -10)))

F00 == <<"F", "0", "0">>

\* int(text): the digits after an optional sign
int_digits(t) == IF t # << >> /\ t[1] \in {"+", "-"} THEN Tail(t) ELSE t
\* int(text) raises ValueError
int_raises(t) ==
    \/ int_digits(t) = << >>
    \/ \E i \in 1..Len(int_digits(t)) : int_digits(t)[i] \notin Digits
int_of(t) ==
    IF t[1] = "-" THEN 0 - DecimalOf(int_digits(t)) ELSE DecimalOf(int_digits(t))

\* preset[1:]
recall_index_text(preset) == IF preset = << >> THEN << >> ELSE Tail(preset)

recall_user_never(preset) == FALSE

\* recall: every name but "F00" goes to a user preset
recall_user(preset) == preset # F00

\* the low-level calls a facade operation makes, in order
facade_calls(o) ==
    IF o.name = "recall"
    THEN IF recall_user(o.preset)
         THEN <<recall_preset_call(TRUE, int_of(recall_index_text(o.preset)))>>
         ELSE <<recall_preset_call(FALSE, 0)>>
    ELSE IF o.name = "set_input_volume_db"
    THEN <<set_input_volume_db_call(o.ch, o.db)>>
    ELSE IF o.name = "set_output_volume_db"
    THEN <<set_output_volume_db_call(o.ch, o.db)>>
    ELSE IF o.name = "apply_gain_delta"
    THEN <<get_gain_db_call(bus_map[o.bus].out, bus_map[o.bus].ch),
           set_gain_call(bus_map[o.bus].out, bus_map[o.bus].ch, o.sign)>>
    ELSE IF o.name = "get_mute"
    THEN <<get_mute_call(bus_map[o.bus].out, bus_map[o.bus].ch)>>
    ELSE IF o.name = "mute_all"
    THEN \* `on & input[str(ch)]` is evaluated before the first set_mute is
         \* called, and only `if on:`; no name `input` is defined in the driver
         << >>
    ELSE \* read_levels
         [k \in 1..Len(BusOrder) |->
             get_gain_db_call(bus_map[BusOrder[k]].out, bus_map[BusOrder[k]].ch)]

\* the exception an operation raises before its first low-level call
facade_raises(o) ==
    IF o.name = "apply_gain_delta" /\ o.bus \notin DOMAIN bus_map
    THEN "ValueError"       \* _resolve
    ELSE IF o.name = "mute_all" /\ o.on
    THEN "TypeError"        \* input[str(ch)]: the builtin function is not subscriptable
    ELSE IF o.name = "recall" /\ recall_user(o.preset)
            /\ int_raises(recall_index_text(o.preset))
    THEN "ValueError"       \* int(preset[1:])
    ELSE "none"

NoOp == [name |-> "none", bus |-> "in_a", sign |-> 0, on |-> FALSE,
         preset |-> << >>, ch |-> 0, db |-> 0]
FacadeOps ==
    {[NoOp EXCEPT !.name = "apply_gain_delta", !.bus = "in_a", !.sign = 1],
     [NoOp EXCEPT !.name = "apply_gain_delta", !.bus = "out3", !.sign = -1],
     [NoOp EXCEPT !.name = "read_levels"]}

\* preset names a caller passes: the factory preset, user presets inside and
\* outside U01..U03, and names that are neither
Presets ==
    {F00, <<"U", "0", "1">>, <<"U", "0", "2">>, <<"U", "0", "3">>, <<"U", "0", "9">>,
     <<"U", "9", "9">>, <<"F", "0", "1">>, <<"U", "x", "y">>, <<"U">>, << >>}

\* "Richiama un preset del DSP (es. F00, U01, U02, U03)"
SupportedPresets == {F00, <<"U", "0", "1">>, <<"U", "0", "2">>, <<"U", "0", "3">>}

\* dB values (tenths) and channels given to the volume setters
DbSamples == {-700, -601, -600, -203, 0, 57, 120, 121, 200}
VolumeChannels == {0, 3}

\* the operations of one request: a gain step on a known or an unknown bus,
\* a mute query of a channel, mute_all, a preset recall, a volume setting
OneOps ==
    {[NoOp EXCEPT !.name = "apply_gain_delta", !.bus = b, !.sign = sg] :
        b \in {"in_a", "out3", "aux"}, sg \in {1, -1}}
    \cup {[NoOp EXCEPT !.name = "get_mute", !.bus = b] : b \in {"in_a", "out1"}}
    \cup {[NoOp EXCEPT !.name = "mute_all", !.on = v] : v \in BOOLEAN}
    \cup {[NoOp EXCEPT !.name = "recall", !.preset = p] : p \in Presets}
    \cup {[NoOp EXCEPT !.name = n, !.ch = c, !.db = d] :
             n \in {"set_input_volume_db", "set_output_volume_db"},
             c \in VolumeChannels, d \in DbSamples}

\* cfg['dsp']['input'] and cfg['dsp']['output']: the channels in use
in_use == [input |-> <<TRUE, FALSE, FALSE, FALSE>>,
           output |-> <<TRUE, FALSE, FALSE, FALSE, TRUE, FALSE, FALSE, FALSE>>]

\* two-byte replies of the device to a get-gain query
GainReplies == {<<0, 200>>}

\* bytes a device may answer with: codes 0, 1, 200 and 400, high byte first
MixerReplies == {<<0, 0>>, <<0, 1>>, <<0, 200>>, <<1, 144>>}

\* RS232TCPClient.__init__ (through DSP408Client.__init__) and an idle worker
NewClient ==
    [sock |-> "none", last_send_ts |-> 0,
     pc |-> "idle", op |-> NoOp, todo |-> << >>, cur |-> NoCall, try |-> 0,
     wake |-> 0, pkt |-> << >>, data |-> << >>, ret |-> << >>,
     val |-> 0, out |-> << >>, exc |-> "none",
     lastWireAt |-> -1, gap |-> -1, sent |-> << >>, timeouts |-> 0]

\* the worker of client i is inside send_command
InSendCommand(i) ==
    mx[i].pc \in {"connect", "spacing", "sleep", "stamp", "settle", "recv"}

(***************************************************************************)
(* MixerLink: a facade operation in its worker thread.  Steps that touch   *)
(* only the thread's own state are part of the step before them.           *)
(***************************************************************************)
Set(i, r) == mx' = [mx EXCEPT ![i] = r]

\* the low-level client calls send_command; self.connect() opens the socket
\* only when there is none
Called(c, call) ==
    [c EXCEPT !.cur = call, !.try = 1, !.wake = 0,
              !.pc = IF c.sock = "none" THEN "connect" ELSE "spacing"]

\* send_command returned ret to the low-level client: get_gain_db decodes the
\* reply, _do goes on with its next call or returns
Returned(c, ret) ==
    LET v == IF c.cur.fn = "get_gain_db"
             THEN get_gain_db_decode(ret[1], ret[2]) ELSE c.val
        d == [c EXCEPT !.val = v, !.ret = ret, !.todo = Tail(c.todo),
                       !.out = IF c.op.name = "read_levels" THEN Append(c.out, v) ELSE @]
    IN  IF d.todo # << >> THEN Called(d, Head(d.todo))
        ELSE [d EXCEPT !.cur = NoCall, !.pc = "done", !.wake = 0,
                       !.out = IF c.op.name = "apply_gain_delta"
                               THEN <<apply_gain_delta_new(v, c.op.sign)>>
                               ELSE IF c.op.name = "get_mute"
                               THEN <<get_mute_result(ret)>> ELSE @]

Failed_retry_twice(c, e) ==
    IF c.cur.fn = "get_gain_db" /\ e = "TimeoutError" /\ c.try \in {1, 2}
    THEN [c EXCEPT !.try = @ + 1, !.wake = 0, !.pc = "spacing"]
    ELSE [c EXCEPT !.exc = e, !.wake = 0, !.pc = "failed"]

\* send_command raised e: get_gain_db sends its query once more after a first
\* TimeoutError; every other exception ends the operation
Failed(c, e) ==
    IF c.cur.fn = "get_gain_db" /\ e = "TimeoutError" /\ c.try = 1
    THEN [c EXCEPT !.try = 2, !.wake = 0, !.pc = "spacing"]
    ELSE [c EXCEPT !.exc = e, !.wake = 0, !.pc = "failed"]

\* dsp = DSP408Client(...); await dsp.<op>(...): asyncio.to_thread(_do)
facade_start(i) ==
    /\ mx[i].pc = "idle"
    /\ \E o \in FacadeOps :
         Set(i, Called([mx[i] EXCEPT !.op = o, !.todo = facade_calls(o)],
                       Head(facade_calls(o))))
    /\ UNCHANGED <<mnow, rx, pend, pjSide, mixer, fnVars, runVars, appVars, source>>

\* one request: the operation raises before its first low-level call, makes
\* no call at all, or runs _do in its thread
facade_start_one ==
    /\ mx[1].pc = "idle"
    /\ \E o \in OneOps :
         IF facade_raises(o) # "none"
         THEN Set(1, [mx[1] EXCEPT !.op = o, !.exc = facade_raises(o), !.pc = "failed"])
         ELSE IF facade_calls(o) = << >>
         THEN Set(1, [mx[1] EXCEPT !.op = o, !.pc = "done"])
         ELSE Set(1, Called([mx[1] EXCEPT !.op = o, !.todo = facade_calls(o)],
                            Head(facade_calls(o))))
    /\ UNCHANGED <<mnow, rx, pend, pjSide, mixer, fnVars, runVars, appVars, source>>

\* queries sent through send_command itself, with and without echo handling
EchoCalls ==
    {send_command_call(CMD_GET_GAIN, 2, e) : e \in BOOLEAN}
    \cup {send_command_call(CMD_GET_MUTE, 1, e) : e \in BOOLEAN}

\* one direct call of RS232TCPClient.send_command; the operation record keeps
\* expect_echo in on and answ_byte in ch
send_command_start ==
    /\ mx[1].pc = "idle"
    /\ \E call \in EchoCalls :
         Set(1, Called([mx[1] EXCEPT !.op = [NoOp EXCEPT !.name = "send_command",
                                                         !.on = call.out, !.ch = call.ch],
                                     !.todo = <<call>>], call))
    /\ UNCHANGED <<mnow, rx, pend, pjSide, mixer, fnVars, runVars, appVars, source>>

\* self.connect(): socket.create_connection
send_command_connect(i) ==
    /\ mx[i].pc = "connect"
    /\ \/ Set(i, [mx[i] EXCEPT !.sock = "open", !.pc = "spacing"])
       \/ Set(i, Failed(mx[i], "ConnectionError"))
    /\ UNCHANGED <<mnow, rx, pend, pjSide, mixer, fnVars, runVars, appVars, source>>

\* now = time.monotonic(); delta = ...; if delta < self.min_step: time.sleep(...)
send_command_spacing(i) ==
    /\ mx[i].pc = "spacing"
    /\ Set(i, [mx[i] EXCEPT !.wake = mnow + send_command_wait(mnow, mx[i].last_send_ts),
                            !.pc = "sleep"])
    /\ UNCHANGED <<mnow, rx, pend, pjSide, mixer, fnVars, runVars, appVars, source>>

\* pkt = self._build_packet(...); self._sock.sendall(pkt), once the sleep is over
send_command_send(i) ==
    /\ mx[i].pc = "sleep"
    /\ mnow >= mx[i].wake
    /\ LET a == send_command_args(mx[i].cur)
       IN  /\ Set(i, [mx[i] EXCEPT
                        !.pkt = build_packet(DeviceAddr, a.cmd, a.d1, a.d2, a.d3),
                        !.gap = IF mx[i].lastWireAt < 0 THEN -1 ELSE mnow - mx[i].lastWireAt,
                        !.lastWireAt = mnow, !.wake = 0,
                        !.sent = Append(@, build_packet(DeviceAddr, a.cmd, a.d1, a.d2, a.d3)),
                        !.pc = "stamp"])
           /\ pend' = IF a.cmd \in CMDS_WITH_REPLY
                      THEN [pend EXCEPT ![i] = Append(@, a.answ_byte)]
                      ELSE pend
    /\ UNCHANGED <<mnow, rx, pjSide, mixer, fnVars, runVars, appVars, source>>

\* self._last_send_ts = time.monotonic(); return None unless a reply is expected;
\* time.sleep(0.02)
send_command_stamp(i) ==
    /\ mx[i].pc = "stamp"
    /\ IF send_command_expects(send_command_args(mx[i].cur))
       THEN Set(i, [mx[i] EXCEPT !.last_send_ts = mnow, !.gap = -1,
                                 !.wake = mnow + SettleCs, !.pc = "settle"])
       ELSE Set(i, Returned([mx[i] EXCEPT !.last_send_ts = mnow, !.gap = -1], << >>))
    /\ UNCHANGED <<mnow, rx, pend, pjSide, mixer, fnVars, runVars, appVars, source>>

\* _read_reply_packet: deadline = time.monotonic() + total_timeout
send_command_settle(i) ==
    /\ mx[i].pc = "settle"
    /\ mnow >= mx[i].wake
    /\ Set(i, [mx[i] EXCEPT
                 !.wake = mnow + send_command_total_timeout(send_command_args(mx[i].cur)),
                 !.data = << >>, !.pc = "recv"])
    /\ UNCHANGED <<mnow, rx, pend, pjSide, mixer, fnVars, runVars, appVars, source>>

\* _recv_exact: one recv of the loop, or the TimeoutError at the deadline; with
\* n bytes read: the echo test of _read_reply_packet and _parse_packet
recv_exact(i) ==
    /\ mx[i].pc = "recv"
    /\ LET a == send_command_args(mx[i].cur)
           need == a.answ_byte - Len(mx[i].data)
       IN  \/ /\ mnow >= mx[i].wake
              /\ Set(i, Failed([mx[i] EXCEPT !.data = << >>, !.timeouts = @ + 1],
                               "TimeoutError"))
              /\ UNCHANGED rx
           \/ /\ mnow < mx[i].wake
              /\ rx[i] # << >>
              /\ LET k == Min(need, Len(rx[i]))
                     got == mx[i].data \o SubSeq(rx[i], 1, k)
                 IN  /\ rx' = [rx EXCEPT ![i] = SubSeq(@, k + 1, Len(@))]
                     /\ IF Len(got) < a.answ_byte
                        THEN Set(i, [mx[i] EXCEPT !.data = got])
                        ELSE IF a.echo /\ got = mx[i].pkt
                        THEN Set(i, [mx[i] EXCEPT !.data = << >>])
                        ELSE Set(i, Returned([mx[i] EXCEPT !.data = << >>],
                                             parse_packet(got)))
    /\ UNCHANGED <<mnow, pend, pjSide, mixer, fnVars, runVars, appVars, source>>

(***************************************************************************)
(* The mixer and the clock.                                                *)
(***************************************************************************)
\* the device answers the oldest unanswered query of a connection
device_reply(i) ==
    /\ mixer = "answers"
    /\ pend[i] # << >>
    /\ \E r \in GainReplies :
         rx' = [rx EXCEPT ![i] = @ \o SubSeq(r, 1, Head(pend[i]))]
    /\ pend' = [pend EXCEPT ![i] = Tail(@)]
    /\ UNCHANGED <<mnow, mx, pjSide, mixer, fnVars, runVars, appVars, source>>

\* a device that answers a query with any of its replies, at any time or never
device_reply_free(i) ==
    /\ mixer = "free"
    /\ pend[i] # << >>
    /\ \E r \in MixerReplies :
         rx' = [rx EXCEPT ![i] = @ \o SubSeq(r, 1, Head(pend[i]))]
    /\ pend' = [pend EXCEPT ![i] = Tail(@)]
    /\ UNCHANGED <<mnow, mx, pjSide, mixer, fnVars, runVars, appVars, source>>

\* the queries client i has sent: its frames whose command has a reply
QueriesSent(i) ==
    Cardinality({k \in 1..Len(mx[i].sent) : mx[i].sent[k][4] \in CMDS_WITH_REPLY})

\* the reply of a device whose register holds code k when it answers the k-th query
numbered_reply(k) == <<k \div 256, k % 256>>

\* a device that answers the queries of a connection in their order, each at
\* any time or never, the k-th with code k
device_reply_numbered(i) ==
    /\ mixer = "numbered"
    /\ pend[i] # << >>
    /\ rx' = [rx EXCEPT ![i] = @ \o SubSeq(numbered_reply(QueriesSent(i) - Len(pend[i]) + 1),
                                            1, Head(pend[i]))]
    /\ pend' = [pend EXCEPT ![i] = Tail(@)]
    /\ UNCHANGED <<mnow, mx, pjSide, mixer, fnVars, runVars, appVars, source>>

\* a link that echoes the frame it was sent, before the device's reply to it
link_echo_reply(i) ==
    /\ mixer = "echo"
    /\ pend[i] # << >>
    /\ \E r \in MixerReplies :
         rx' = [rx EXCEPT ![i] = @ \o mx[i].pkt \o SubSeq(r, 1, Head(pend[i]))]
    /\ pend' = [pend EXCEPT ![i] = Tail(@)]
    /\ UNCHANGED <<mnow, mx, pjSide, mixer, fnVars, runVars, appVars, source>>

\* a mixer that answers does so before the clock moves on
Answered == mixer = "answers" => \A i \in Clients : pend[i] = << >>

\* threads blocked in a sleep or in a recv without data; wake is when that ends
Waiting ==
    {i \in Clients : /\ mx[i].wake > mnow
                     /\ \/ mx[i].pc \in {"sleep", "settle"}
                        \/ mx[i].pc = "recv" /\ rx[i] = << >>}

\* time passes until the next instant a thread waits for
clock_leap ==
    /\ Answered
    /\ Waiting # {}
    /\ mnow' = CHOOSE t \in {mx[i].wake : i \in Waiting} :
                  \A j \in Waiting : t <= mx[j].wake
    /\ UNCHANGED <<mx, rx, pend, pjSide, mixer, fnVars, runVars, appVars, source>>

(***************************************************************************)
(* One function applied to one input.                                      *)
(***************************************************************************)
Unset == [k |-> "unset", v |-> 0]

\* codes and dB values (tenths) given to the code table functions
CodeInputs == (0 - CodeMargin)..(400 + CodeMargin)
DbInputs == (-600 - DbMargin)..(120 + DbMargin)

\* response lines given to get_power: POWR= followed by a digit, by another
\* character or by nothing, after the %1 header or not, and the device's lines
PowerTexts ==
    {pre \o POWR \o <<"=">> \o tail :
        pre \in {<< >>, <<"%", "1">>},
        tail \in {<<d>> : d \in Digits} \cup {<< >>, <<"?">>, <<"E", "R", "R", "3">>}}
    \cup Responses \cup {<< >>}

\* dB values on the 0.05 dB grid from -60 to +12 dB, in twentieths of a dB
GridInputs == -1200..240

\* the two reply bytes of a get-gain query as one number, high byte first
ReplyInputs == 0..65535

\* address, command and data bytes given to _build_packet, some beyond a byte
ByteInputs == {-1, 0, 123, 255, 256}
PacketInputs == {<<a, c, d1, d2, d3>> : a \in ByteInputs, c \in ByteInputs,
                                        d1 \in ByteInputs, d2 \in ByteInputs,
                                        d3 \in ByteInputs}

apply_code_to_db ==
    /\ fn = "code_to_db" /\ res = Unset
    /\ res' = code_to_db_call(arg)
    /\ UNCHANGED <<fn, arg, txt, fargs, fout, source, runVars, appVars, mxVars, pjSide>>

apply_db_to_code ==
    /\ fn = "db_to_code" /\ res = Unset
    /\ res' = IntRes(db_to_code(arg))
    /\ UNCHANGED <<fn, arg, txt, fargs, fout, source, runVars, appVars, mxVars, pjSide>>

\* db_to_code(code_to_db(c))
apply_round_trip ==
    /\ fn = "round_trip" /\ res = Unset
    /\ res' = IF code_to_db_call(arg) = Raised THEN Raised
              ELSE IntRes(db_to_code(code_to_db_call(arg).v))
    /\ UNCHANGED <<fn, arg, txt, fargs, fout, source, runVars, appVars, mxVars, pjSide>>

\* code_to_db(db_to_code(db)) for a db of the grid; res in tenths of a dB
apply_grid_round_trip ==
    /\ fn = "grid_round_trip" /\ res = Unset
    /\ \E c \in db_to_code_grid(arg) : res' = code_to_db_call(c)
    /\ UNCHANGED <<fn, arg, txt, fargs, fout, source, runVars, appVars, mxVars, pjSide>>

\* get_gain_db's decoding of a reply
apply_get_gain_db ==
    /\ fn = "get_gain_db" /\ res = Unset
    /\ res' = get_gain_db_result(arg \div 256, arg % 256)
    /\ UNCHANGED <<fn, arg, txt, fargs, fout, source, runVars, appVars, mxVars, pjSide>>

\* _build_packet(addr, cmd, d1, d2, d3)
apply_build_packet ==
    /\ fn = "build_packet" /\ fout = << >>
    /\ fout' = build_packet(fargs[1], fargs[2], fargs[3], fargs[4], fargs[5])
    /\ UNCHANGED <<fn, arg, txt, fargs, res, source, runVars, appVars, mxVars, pjSide>>

(***************************************************************************)
(* power_scheduler.py: the next occurrence of a time of day.  An instant   *)
(* is counted in half minutes from the Monday 00:00 of the week of `now`:  *)
(* an even count is a full minute, an odd one any later moment of it.      *)
(***************************************************************************)
TicksPerMinute == 2
TicksPerDay == 2880

Mon == <<"m", "o", "n">>
Tue == <<"t", "u", "e">>
Wed == <<"w", "e", "d">>
Thu == <<"t", "h", "u">>
Fri == <<"f", "r", "i">>
Sat == <<"s", "a", "t">>
Sun == <<"s", "u", "n">>
DAY_ORDER == <<Mon, Tue, Wed, Thu, Fri, Sat, Sun>>

\* str.lower()
lower(s) ==
    [i \in 1..Len(s) |->
        IF \E k \in 1..26 : UpperCase[k] = s[i]
        THEN LowerCase[CHOOSE k \in 1..26 : UpperCase[k] = s[i]]
        ELSE s[i]]

\* _parse_time on a value "HH:MM": hh, mm = value.split(":", 1)
parse_time(value) ==
    LET c == CHOOSE i \in 1..Len(value) : value[i] = ":" /\ \A j \in 1..(i - 1) : value[j] # ":"
    IN  [hour |-> DecimalOf(SubSeq(value, 1, c - 1)),
         minute |-> DecimalOf(SubSeq(value, c + 1, Len(value)))]

\* dt.datetime.now() as an instant: weekday(), hour * 60 + minute, and whether
\* its seconds and microseconds are not all zero
instant(nw) == nw.wd * TicksPerDay + nw.min * TicksPerMinute + nw.frac

\* mutant: a candidate equal to now is taken
next_occurrence_skips_before(candidate_dt, t) == candidate_dt < t

\* `if candidate_dt <= now: continue`
next_occurrence_skips(candidate_dt, t) == candidate_dt <= t

\* _next_occurrence(time_str, days) when datetime.now() is nw: the instant, or None
next_occurrence(time_str, days, nw) ==
    LET tgt_time == parse_time(time_str)
        wanted == {lower(days[i]) : i \in 1..Len(days)}
        candidate_dt(delta) ==
            (nw.wd + delta) * TicksPerDay
            + (tgt_time.hour * 60 + tgt_time.minute) * TicksPerMinute
        hits == {delta \in 0..7 :
                    /\ DAY_ORDER[((nw.wd + delta) % 7) + 1] \in wanted
                    /\ ~next_occurrence_skips(candidate_dt(delta), instant(nw))}
    IN  IF hits = {} THEN NoRes
        ELSE IntRes(candidate_dt(CHOOSE d \in hits : \A e \in hits : d <= e))

\* the times of day, the day lists and the moments the function is applied to
TimeInputs == {<<"0", "0", ":", "0", "0">>, <<"0", "7", ":", "3", "0">>,
               <<"2", "3", ":", "5", "9">>}
DayLists == {<< >>, <<Mon>>, <<<<"M", "O", "N">>>>, <<Wed, Sun>>, <<<<"x", "y", "z">>>>,
             <<Sun, <<"x", "y", "z">>>>, <<Mon, Tue, Wed, Thu, Fri>>}
NowInputs == [wd : 0..6, min : {0, 449, 450, 451, 1439}, frac : {0, 1}]

\* _next_occurrence(txt, fargs[2]) at the moment fargs[1]
apply_next_occurrence ==
    /\ fn = "next_occurrence" /\ res = Unset
    /\ res' = next_occurrence(txt, fargs[2], fargs[1])
    /\ UNCHANGED <<fn, arg, txt, fargs, fout, source, runVars, appVars, mxVars, pjSide>>

\* get_power once _send_cmd has returned the line
apply_get_power ==
    /\ fn = "get_power" /\ res = Unset
    /\ res' = get_power_result(client, txt)
    /\ UNCHANGED <<fn, arg, txt, fargs, fout, source, runVars, appVars, mxVars, pjSide>>

(***************************************************************************)
(* Specifications.                                                         *)
(***************************************************************************)
(***************************************************************************)
(* POST /scene/spegni_aula: the power-off sequence, mute_all(True), the    *)
(* screen pulse, then the two mains relays off.                            *)
(***************************************************************************)
NoScene == [pc |-> "none", at |-> "none", exc |-> "none", cmds |-> << >>]

\* the ShellyHTTP calls of lines 303-306, in order: pulse(ch2) is set_relay on
\* and off on shelly2, then set_relay(ch1, False) and set_relay(ch2, False) on shelly1
scene_relay_calls ==
    <<[dev |-> "shelly2", ch |-> "ch2", on |-> TRUE, step |-> "pulse"],
      [dev |-> "shelly2", ch |-> "ch2", on |-> FALSE, step |-> "pulse"],
      [dev |-> "shelly1", ch |-> "ch1", on |-> FALSE, step |-> "relay_off"],
      [dev |-> "shelly1", ch |-> "ch2", on |-> FALSE, step |-> "relay_off"]>>

\* `await _power_sequence(False)` returns when the sequence has ended
scene_sequence_returned(pc) == pc = "done"

\* pj = PJLinkClient(...); await _power_sequence(False)
scene_spegni_aula ==
    /\ scene.pc = "none"
    /\ seqPc = "idle"
    /\ seqOn' = FALSE
    /\ seqPc' = "off_power"
    /\ scene' = [scene EXCEPT !.pc = "sequence"]
    /\ UNCHANGED <<fnVars, runVars, auth, source, mxVars, pjCfg, now, pjCall, pjOp, relayOk,
                   statusText, st, pollEnd, ready, seqExc, relayAt, powerAt, pollStart>>

\* lines 300-308, once the sequence has returned: mute_all(True) raises or makes
\* its calls; then the relay calls one after the other, each of which may raise
\* a transport error, which ends the scene
scene_spegni_aula_rest ==
    /\ scene.pc = "sequence"
    /\ scene_sequence_returned(seqPc)
    /\ LET mute == [NoOp EXCEPT !.name = "mute_all", !.on = TRUE]
       IN  IF facade_raises(mute) # "none"
           THEN scene' = [scene EXCEPT !.pc = "raised", !.at = "mute_all",
                                       !.exc = facade_raises(mute)]
           ELSE \E k \in 0..Len(scene_relay_calls) :
                  scene' = [scene EXCEPT
                              !.cmds = SubSeq(scene_relay_calls, 1, k),
                              !.pc = IF k < Len(scene_relay_calls) THEN "raised" ELSE "done",
                              !.at = IF k < Len(scene_relay_calls)
                                     THEN scene_relay_calls[k + 1].step ELSE "none",
                              !.exc = IF k < Len(scene_relay_calls)
                                      THEN "TransportError" ELSE "none"]
    /\ UNCHANGED <<fnVars, runVars, auth, source, mxVars, pjSide>>

(***************************************************************************)
(* auth.py: the operator's session tokens.                                 *)
(***************************************************************************)
\* login and logout events the model follows
MaxEvents == 3

\* PINs typed at the login form, tokens secrets.token_urlsafe may return, and
\* what a request carries as its rtoken cookie ("None": no cookie)
Pins == {"", "1234", "0000"}
Tokens == {"tA", "tB"}
Cookies == Tokens \cup {"", "None"}

\* config.yaml's auth section and the argon2 import: hash is the PIN that
\* pin_hash is the hash of ("none": no pin_hash), ph whether PasswordHasher was
\* imported, plain is str(pin_plain or '')
AuthConfigs == [hash : {"none", "", "1234"}, ph : BOOLEAN, plain : {"", "1234"}]

NoAuth == [cfg |-> [hash |-> "none", ph |-> FALSE, plain |-> ""],
           valid |-> {}, log |-> << >>, req |-> [t |-> "None", ok |-> FALSE, n |-> 0]]

\* _check_pin
check_pin(c, pin) ==
    IF c.hash # "none" /\ c.ph
    THEN pin = c.hash
    ELSE c.plain # "" /\ pin = c.plain

\* `if not pin: return None`
login_with_pin_refuses(pin) == pin = ""

\* mutant: logout forgets the token of its own request only
logout_tokens_own(valid, t) == valid \ {t}

\* _VALID_TOKENS.clear(), in the request whose cookie is t
logout_tokens(valid, t) == {}

\* `if not t or t not in _VALID_TOKENS: raise HTTPException(...)`; return True
require_operator_accepts(valid, t) == ~(t \in {"None", ""} \/ t \notin valid)

\* login_with_pin(pin), with issue_token when the PIN is right
login_with_pin ==
    /\ Len(auth.log) < MaxEvents
    /\ \E pin \in Pins :
         IF ~login_with_pin_refuses(pin) /\ check_pin(auth.cfg, pin)
         THEN \E t \in Tokens :
                auth' = [auth EXCEPT
                           !.valid = @ \cup {t},
                           !.log = Append(@, [ev |-> "login", pin |-> pin, ret |-> t])]
         ELSE auth' = [auth EXCEPT
                         !.log = Append(@, [ev |-> "login", pin |-> pin, ret |-> "None"])]
    /\ UNCHANGED <<fnVars, runVars, scene, source, mxVars, pjSide>>

\* logout(resp), called for a request with any cookie or none
logout ==
    /\ Len(auth.log) < MaxEvents
    /\ \E t \in Cookies :
         auth' = [auth EXCEPT
                    !.valid = logout_tokens(@, t),
                    !.log = Append(@, [ev |-> "logout", pin |-> "", ret |-> "None"])]
    /\ UNCHANGED <<fnVars, runVars, scene, source, mxVars, pjSide>>

\* require_operator(request): req keeps the cookie, the outcome and how many
\* events came before
require_operator ==
    /\ \E t \in Cookies :
         auth' = [auth EXCEPT !.req = [t |-> t, ok |-> require_operator_accepts(auth.valid, t),
                                       n |-> Len(auth.log)]]
    /\ UNCHANGED <<fnVars, runVars, scene, source, mxVars, pjSide>>

vars == <<pjCfg, now, pjCall, pjOp, seqVars, mxVars, fnVars, runVars, appVars, source>>

InitBase ==
    /\ now = 0
    /\ pjPc = "idle" /\ cmd = << >> /\ attempt = 0 /\ last_exc = "none"
    /\ exc = "none" /\ conn = "none" /\ connCmds = 0 /\ banner = << >>
    /\ need_auth = FALSE /\ rand = << >> /\ wire = << >> /\ resp = << >>
    /\ raisedExc = "none" /\ callStart = 0 /\ opens = 0 /\ tries = 0
    /\ written = 0 /\ refusedAuth = FALSE
    /\ op = "none" /\ opRes = NoRes /\ opExc = "none" /\ calls = 0
    /\ seqOn = FALSE /\ relayOk = "unset" /\ statusText = ""
    /\ st = NoRes /\ pollEnd = 0 /\ ready = "unset" /\ seqExc = "none"
    /\ relayAt = -1 /\ powerAt = -1 /\ pollStart = -1
    \* time.monotonic() has been running for a while when the first client is built
    /\ mnow = min_step
    /\ mx = [i \in Clients |-> NewClient]
    /\ rx = [i \in Clients |-> << >>]
    /\ pend = [i \in Clients |-> << >>]
    /\ reqs = << >>
    /\ runs = [i \in Runs |-> NoRun]
    /\ pjLog = << >>
    /\ scene = NoScene

\* the same, with nobody logged in and no login configured
InitCommon ==
    /\ InitBase
    /\ auth = NoAuth

\* no function application, no set_input call
InitNoFn ==
    /\ fn = "none" /\ arg = 0 /\ txt = << >> /\ res = Unset /\ source = << >>
    /\ fargs = << >> /\ fout = << >>

\* a direct caller using either client
InitPJ ==
    /\ InitCommon
    /\ InitNoFn
    /\ retries \in 0..MaxRetries
    /\ mixer = "silent"
    /\ client \in {"async", "sync"}
    /\ device = AnyDevice
    /\ password \in Passwords
    /\ seqPc = "off"

NextPJ ==
    \/ api_power
    \/ api_get_power
    \/ api_return
    \/ send_cmd_open
    \/ send_cmd_handshake
    \/ send_cmd_write
    \/ send_cmd_response
    \/ send_cmd_except

SpecPJ == InitPJ /\ [][NextPJ]_vars

\* one _power_sequence run; api_ver_7.py builds a PJLinkClient
InitPower ==
    /\ InitCommon
    /\ InitNoFn
    /\ retries \in 0..MaxRetries
    /\ mixer = "silent"
    /\ client = "async"
    /\ device \in FixedDevices
    \* the password is read only after a banner that asks for authentication
    /\ password \in IF device.b = BannerAuth THEN Passwords ELSE {Secret}
    /\ seqPc = "idle"

NextPower ==
    \/ power_sequence_start
    \/ power_sequence_relay
    \/ power_sequence_warmup
    \/ power_sequence_power
    \/ power_sequence_power_done
    \/ power_sequence_off
    \/ power_sequence_off_done
    \/ wait_power_state_test
    \/ wait_power_state_polled
    \/ wait_power_state_sleep
    \/ send_cmd_open
    \/ send_cmd_handshake
    \/ send_cmd_write
    \/ send_cmd_response
    \/ send_cmd_except

SpecPower == InitPower /\ [][NextPower]_vars

\* _power_sequence(True), as projector_power and scene_accendi_aula call it
power_sequence_start_on ==
    /\ seqPc = "idle"
    /\ seqOn' = TRUE
    /\ seqPc' = "relay"
    /\ UNCHANGED <<fnVars, runVars, appVars, source, mxVars, pjCfg, now, pjCall, pjOp, relayOk,
                   statusText, st, pollEnd, ready, seqExc, relayAt, powerAt, pollStart>>

NextPowerOn ==
    \/ power_sequence_start_on
    \/ power_sequence_relay
    \/ power_sequence_warmup
    \/ power_sequence_power
    \/ power_sequence_power_done
    \/ send_cmd_open
    \/ send_cmd_handshake
    \/ send_cmd_write
    \/ send_cmd_response
    \/ send_cmd_except

\* PowerOn runs on an event loop that keeps running: a task that can take a
\* step takes it, every sleep and every wait_for timeout comes to its end
SpecPowerLive == InitPower /\ [][NextPowerOn]_vars /\ WF_vars(NextPowerOn)

\* concurrent API requests to the mixer: api_ver_7.py builds one DSP408Client
\* per request, each facade call runs in a thread of its own
InitMixer ==
    /\ InitCommon
    /\ InitNoFn
    /\ retries = 0
    /\ client = "async"
    /\ device = AnyDevice
    /\ password = Secret
    /\ seqPc = "off"
    /\ mixer \in {"answers", "silent"}

NextMixer ==
    \/ \E i \in Clients : facade_start(i)
    \/ \E i \in Clients : send_command_connect(i)
    \/ \E i \in Clients : send_command_spacing(i)
    \/ \E i \in Clients : send_command_send(i)
    \/ \E i \in Clients : send_command_stamp(i)
    \/ \E i \in Clients : send_command_settle(i)
    \/ \E i \in Clients : recv_exact(i)
    \/ \E i \in Clients : device_reply(i)
    \/ clock_leap

SpecMixer == InitMixer /\ [][NextMixer]_vars

\* one request to the mixer, the device free to answer late or not at all
InitMixerOne ==
    /\ InitCommon
    /\ InitNoFn
    /\ retries = 0
    /\ client = "async"
    /\ device = AnyDevice
    /\ password = Secret
    /\ seqPc = "off"
    /\ mixer = "free"

NextMixerOne ==
    \/ facade_start_one
    \/ send_command_connect(1)
    \/ send_command_spacing(1)
    \/ send_command_send(1)
    \/ send_command_stamp(1)
    \/ send_command_settle(1)
    \/ recv_exact(1)
    \/ device_reply_free(1)
    \/ clock_leap

SpecMixerOne == InitMixerOne /\ [][NextMixerOne]_vars

\* a direct caller of set_input; api_ver_7.py builds a PJLinkClient
InitInput ==
    /\ InitCommon
    /\ InitNoFn
    /\ retries \in 0..MaxRetries
    /\ mixer = "silent"
    /\ client = "async"
    /\ device = AnyDevice
    /\ password = Secret
    /\ seqPc = "off"

NextInput ==
    \/ api_set_input
    \/ api_return
    \/ send_cmd_open
    \/ send_cmd_handshake
    \/ send_cmd_write
    \/ send_cmd_response
    \/ send_cmd_except

SpecInput == InitInput /\ [][NextInput]_vars

\* power requests arriving while earlier ones are still being carried out
InitRuns ==
    /\ InitCommon
    /\ InitNoFn
    /\ retries = 0
    /\ mixer = "silent"
    /\ client = "async"
    /\ device = AnyDevice
    /\ password = Secret
    /\ seqPc = "off"

NextRuns ==
    \/ projector_power
    \/ \E i \in Runs : task_relay(i)
    \/ \E i \in Runs : task_power(i)
    \/ \E i \in Runs : task_power_done(i)
    \/ \E i \in Runs : task_off(i)
    \/ \E i \in Runs : task_off_done(i)
    \/ \E i \in Runs : task_wait_power_state(i)
    \/ tasks_clock

SpecRuns == InitRuns /\ [][NextRuns]_vars

\* the scene that ends a lesson, against each of the projectors
InitScene ==
    /\ InitCommon
    /\ InitNoFn
    /\ retries \in 0..MaxRetries
    /\ mixer = "silent"
    /\ client = "async"
    /\ device \in FixedDevices
    /\ password \in IF device.b = BannerAuth THEN Passwords ELSE {Secret}
    /\ seqPc = "idle"

NextScene ==
    \/ scene_spegni_aula
    \/ power_sequence_off
    \/ power_sequence_off_done
    \/ wait_power_state_test
    \/ wait_power_state_polled
    \/ wait_power_state_sleep
    \/ send_cmd_open
    \/ send_cmd_handshake
    \/ send_cmd_write
    \/ send_cmd_response
    \/ send_cmd_except
    \/ scene_spegni_aula_rest

SpecScene == InitScene /\ [][NextScene]_vars

\* logins, logouts and protected requests under every auth configuration
InitAuth ==
    /\ InitBase
    /\ InitNoFn
    /\ retries = 0
    /\ client = "async"
    /\ device = AnyDevice
    /\ password = Secret
    /\ seqPc = "off"
    /\ mixer = "silent"
    /\ auth \in {[NoAuth EXCEPT !.cfg = c] : c \in AuthConfigs}

NextAuth ==
    \/ login_with_pin
    \/ logout
    \/ require_operator

SpecAuth == InitAuth /\ [][NextAuth]_vars

\* one request of several queries on its connection, every reply telling
\* which query it answers
InitReplies ==
    /\ InitCommon
    /\ InitNoFn
    /\ retries = 0
    /\ client = "async"
    /\ device = AnyDevice
    /\ password = Secret
    /\ seqPc = "off"
    /\ mixer = "numbered"

NextReplies ==
    \/ facade_start(1)
    \/ send_command_connect(1)
    \/ send_command_spacing(1)
    \/ send_command_send(1)
    \/ send_command_stamp(1)
    \/ send_command_settle(1)
    \/ recv_exact(1)
    \/ device_reply_numbered(1)
    \/ clock_leap

SpecReplies == InitReplies /\ [][NextReplies]_vars

\* one direct send_command call, on a link that echoes and on one that does not
InitEcho ==
    /\ InitCommon
    /\ InitNoFn
    /\ retries = 0
    /\ client = "async"
    /\ device = AnyDevice
    /\ password = Secret
    /\ seqPc = "off"
    /\ mixer \in {"echo", "free"}

NextEcho ==
    \/ send_command_start
    \/ send_command_connect(1)
    \/ send_command_spacing(1)
    \/ send_command_send(1)
    \/ send_command_stamp(1)
    \/ send_command_settle(1)
    \/ recv_exact(1)
    \/ link_echo_reply(1)
    \/ device_reply_free(1)
    \/ clock_leap

SpecEcho == InitEcho /\ [][NextEcho]_vars

\* the code table functions and get_power's parsing, each on one input
InitFn ==
    /\ InitCommon
    /\ retries = 0 /\ client = "async" /\ device = AnyDevice /\ password = Secret
    /\ seqPc = "off" /\ mixer = "silent"
    /\ source = << >> /\ res = Unset /\ fout = << >>
    /\ \/ fn \in {"code_to_db", "round_trip"} /\ arg \in CodeInputs /\ txt = << >> /\ fargs = << >>
       \/ fn = "db_to_code" /\ arg \in DbInputs /\ txt = << >> /\ fargs = << >>
       \/ fn = "get_power" /\ arg = 0 /\ txt \in PowerTexts /\ fargs = << >>
       \/ fn = "grid_round_trip" /\ arg \in GridInputs /\ txt = << >> /\ fargs = << >>
       \/ fn = "get_gain_db" /\ arg \in ReplyInputs /\ txt = << >> /\ fargs = << >>
       \/ fn = "build_packet" /\ arg = 0 /\ txt = << >> /\ fargs \in PacketInputs
       \/ /\ fn = "next_occurrence" /\ arg = 0 /\ txt \in TimeInputs
          /\ fargs \in {<<nw, days>> : nw \in NowInputs, days \in DayLists}

NextFn ==
    \/ apply_code_to_db
    \/ apply_db_to_code
    \/ apply_round_trip
    \/ apply_get_power
    \/ apply_grid_round_trip
    \/ apply_get_gain_db
    \/ apply_build_packet
    \/ apply_next_occurrence

SpecFn == InitFn /\ [][NextFn]_vars

(***************************************************************************)
(* Properties.                                                             *)
(***************************************************************************)
\* sum of the backoff schedule of a call with r retries: 0.4 s x (a + 1), a = 0..r
RECURSIVE BackoffSum(_)
BackoffSum(r) == IF r < 0 THEN 0 ELSE BackoffDs * (r + 1) + BackoffSum(r - 1)

\* an attempt of the current call has ended (with a response or an exception)
AttemptEnded == pjPc \in {"except", "return", "raised"} /\ tries > 0

\* longest poll iteration: every attempt of get_power times out once, the
\* backoff schedule, then the 1.5 s sleep
PollIterationMax(r) == (r + 1) * TimeoutDs + BackoffSum(r) + PollSleepDs

\* C1: no exception leaves _power_sequence, whatever the relay and the
\* projector do (PowerSequencer never raises to its caller).
C1_NeverRaises == seqExc = "none" /\ seqPc # "raised"

\* C2: PowerOn runs relay ON, then the full warm-up, then power(true), in that
\* order and without overlap: no projector call is in progress before the
\* warm-up has ended, power(true) is called no earlier than the warm-up delay
\* after the relay call returned, and a finished run has called power(true)
\* also when the relay answered false.
C2_PowerOnOrder ==
    /\ seqPc \in {"relay", "warmup", "power"} => pjPc = "idle" /\ powerAt = -1
    /\ seqPc = "relay" => relayAt = -1
    /\ powerAt >= 0 => /\ relayOk \in {"true", "false"}
                       /\ relayAt >= 0
                       /\ powerAt >= relayAt + NicWarmupDs
    /\ (seqOn /\ pjPc # "idle") => cmd = CmdPowerOn /\ now >= relayAt + NicWarmupDs
    /\ (seqOn /\ seqPc = "done") => powerAt >= 0

C2_Witness ==
    /\ seqOn /\ relayOk = "false"
    /\ cmd = CmdPowerOn /\ written = 1
    /\ now = relayAt + NicWarmupDs

\* C3 as claimed: a PowerOff whose poll never sees Standby ends exactly at the
\* 90 s boundary, with the error status in the sink and without an exception.
C3_ExactBoundary ==
    (seqPc = "done" /\ ready = "false") =>
        /\ now = pollStart + BudgetOffDs
        /\ statusText = TxtError
        /\ seqExc = "none"

\* C3 as amended: such a PowerOff ends at the first budget check at or after
\* the 90 s boundary: never before it, and later than it by less than one
\* poll iteration; the sink holds the error status and no exception leaves.
C3_AtOrAfterBoundary ==
    (seqPc = "done" /\ ready = "false") =>
        /\ now >= pollStart + BudgetOffDs
        /\ now < pollStart + BudgetOffDs + PollIterationMax(retries)
        /\ statusText = TxtError
        /\ seqExc = "none"

C3_Witness ==
    /\ seqPc = "done" /\ ready = "false"
    /\ now > pollStart + BudgetOffDs
    /\ statusText = TxtError

\* C4: within one client instance every frame is sent at least the minimum
\* inter-command spacing after the instance's previous frame, whatever the
\* commands are (gap is -1 until the instance has sent two frames)
C4_MinSpacing ==
    \A i \in Clients : mx[i].gap = -1 \/ mx[i].gap >= min_step

\* an instance whose last query was answered within the spacing has slept and
\* sent its next frame exactly when the spacing was over
C4_Witness ==
    \E i \in Clients : mx[i].gap = min_step /\ mx[i].pc = "stamp"

\* C5: facade operations running concurrently against the mixer are serialized:
\* at no time are two workers inside send_command
C5_Serialized ==
    \A i, j \in Clients : i # j => ~(InSendCommand(i) /\ InSendCommand(j))

\* C6: when an attempt has ended, with a response or with any exception, the
\* connection it opened is not left open.
C6_AlwaysCloses == AttemptEnded => conn # "open"

\* C7: a call on which every attempt failed has made exactly retries + 1
\* attempts, has taken at least the sum of the backoff schedule, and raises
\* the exception of its last attempt.
C7_RetriesExhausted ==
    pjPc = "raised" =>
        /\ tries = retries + 1
        /\ attempt = retries + 1
        /\ now - callStart >= BackoffSum(retries)
        /\ raisedExc = exc
        /\ raisedExc # "none"

C7_Witness ==
    /\ pjPc = "raised" /\ retries >= 1
    /\ opens = retries + 1 /\ written = 0
    /\ raisedExc = "TimeoutError"

\* C8: every attempt works on a connection of its own, which carries at most
\* one command and is closed when the attempt has ended.
C8_OneCommandPerConnection ==
    /\ connCmds <= 1
    /\ opens <= tries
    /\ written <= opens
    /\ (AttemptEnded /\ conn # "none") => conn = "closed"

C10_CallFailsConfig ==
    (pjPc \in {"return", "raised"} /\ refusedAuth) =>
        /\ pjPc = "raised"
        /\ raisedExc = "NoPassword"
        /\ written = 0

\* C10 as amended: the attempt whose banner requires authentication with no
\* password configured fails with the configuration error, writes no command
\* payload on its connection and closes it; the call raises that error when
\* its last attempt ended so.
C10_AttemptFailsConfig ==
    /\ (pjPc \in {"resp", "return", "except", "raised"}
           /\ banner \in {BannerAuth, BannerAuthNoNonce} /\ password = << >>) =>
         /\ exc = "NoPassword"
         /\ connCmds = 0
         /\ conn = "closed"
         /\ refusedAuth
    /\ (pjPc = "raised" /\ exc = "NoPassword") => raisedExc = "NoPassword"

C10_Witness ==
    /\ pjPc = "raised" /\ raisedExc = "NoPassword"
    /\ banner = BannerAuth /\ password = << >>
    /\ written = 0 /\ conn = "closed"

\* C11: set_input(source), for every source of the configured map, sends INPT
\* with that source's code and returns true iff the response contains OK; for
\* an unmapped source it raises its argument error and opens no connection.
C11_SetInput ==
    /\ (source \in MappedSources /\ op = "none") => opExc # "ValueError"
    /\ (source \in MappedSources /\ op = "set_input") =>
          /\ cmd = CmdInput(input_map_get(source))
          /\ written > 0 => SubSeq(wire, Len(wire) - Len(cmd), Len(wire)) = cmd \o <<CR>>
          /\ pjPc = "return" => op_outcome.res = BoolRes(Contains(OKText, resp))
    /\ (source # << >> /\ input_map_get(source) = << >> /\ upper(source) \notin MappedSources) =>
          opExc = "ValueError" /\ op = "none" /\ opens = 0

\* C12: get_power returns a member of PowerState for every response line:
\* 0..3 (Standby, On, Cooling, WarmUp) when the line holds POWR=0..3, and
\* None (Unknown) when no POWR=<digit> can be parsed; nothing else.
C12_PowerStateOnly ==
    (fn = "get_power" /\ res # Unset) =>
        /\ res \in {NoRes} \cup {IntRes(n) : n \in 0..3}
        /\ get_power_search(txt) = 0 => res = NoRes

\* C13: get_mute returns false, and raises nothing, when the device sends no
\* reply byte before the reply timeout.
C13_GetMuteNoReply ==
    (mx[1].op.name = "get_mute" /\ mx[1].pc \in {"done", "failed"} /\ pend[1] # << >>)
        => (mx[1].pc = "done" /\ mx[1].out = <<FALSE>>)

\* C14: mute_all(on), for on true and for on false, sends one set-mute frame
\* with mute = on to each channel in use of the input bus and of the output
\* buses, and no frame to a channel that is not in use.
C14_MuteAllInUse ==
    LET c == mx[1]
        frame(is_out, ch) ==
            LET a == send_command_args(set_mute_call(is_out, ch, c.op.on))
            IN  build_packet(DeviceAddr, a.cmd, a.d1, a.d2, a.d3)
        frames == {frame(FALSE, ch) : ch \in {k \in 0..3 : in_use.input[k + 1]}}
                  \cup {frame(TRUE, ch) : ch \in {k \in 0..7 : in_use.output[k + 1]}}
    IN  (c.op.name = "mute_all" /\ c.pc \in {"done", "failed"})
            => /\ c.pc = "done"
               /\ {c.sent[k] : k \in 1..Len(c.sent)} = frames
               /\ Len(c.sent) = Cardinality(frames)

\* C15: the step frame of apply_gain_delta(bus, sign) carries the direction:
\* its byte d3 is not the d3 of the step frame for the opposite sign.
C15_StepDirection ==
    LET c == mx[1]
    IN  (c.op.name = "apply_gain_delta" /\ c.pc = "done")
            => LET b == bus_map[c.op.bus]
                   a == send_command_args(set_gain_call(b.out, b.ch, 0 - c.op.sign))
               IN  c.sent[Len(c.sent)][7] # a.d3

\* C16: apply_gain_delta(bus, sign) queries the gain before anything else,
\* then sends exactly one step frame and returns the gain read plus 1 dB for
\* sign > 0, minus 1 dB otherwise, clamped to [-60, +12] dB; for an unknown
\* bus it fails before any frame is sent.
C16_ApplyGainDelta ==
    LET c == mx[1]
        n == Len(c.sent)
        steps == {k \in 1..n : c.sent[k][4] = CMD_GAIN}
    IN  /\ (c.op.name = "apply_gain_delta" /\ c.op.bus \in DOMAIN bus_map) =>
              LET b == bus_map[c.op.bus]
                  d1 == IF b.out THEN 1 ELSE 0
                  query == <<DLE, STX, DeviceAddr, CMD_GET_GAIN, d1, b.ch, 0, STX, DLE>>
                  moved == c.val + (IF c.op.sign > 0 THEN 10 ELSE -10)
              IN  /\ \A k \in 1..n : k \notin steps => c.sent[k] = query
                  /\ \A k \in steps : k = n /\ k > 1 /\ c.sent[k][5] = d1 /\ c.sent[k][6] = b.ch
                  /\ c.pc = "done" =>
                        /\ Cardinality(steps) = 1
                        /\ c.out = <<IF moved < -600 THEN -600
                                      ELSE IF moved > 120 THEN 120 ELSE moved>>
                        /\ -600 <= c.out[1] /\ c.out[1] <= 120
        /\ (c.op.name = "apply_gain_delta" /\ c.op.bus \notin DOMAIN bus_map) =>
              /\ c.pc = "failed" /\ c.exc = "ValueError"
              /\ c.sent = << >> /\ c.sock = "none"

\* a step up from +12 dB has been made and +12 dB returned
C16_Witness ==
    /\ mx[1].op.name = "apply_gain_delta" /\ mx[1].op.sign = 1
    /\ mx[1].pc = "done" /\ mx[1].val = 120 /\ mx[1].out = <<120>>
    /\ Len(mx[1].sent) = 2

\* C17: db_to_code(code_to_db(c)) = c for every code c in 0..400.
C17_RoundTrip ==
    (fn = "round_trip" /\ res # Unset /\ arg \in 0..400) => res = IntRes(arg)

C17_Witness ==
    fn = "round_trip" /\ arg = 281 /\ res = IntRes(281)

\* C18: code_to_db is the three-segment table: -60.0 + 0.5 c up to code 80,
\* -20.0 + 0.1 (c - 80) up to code 280, 0.1 (c - 280) up to code 400; it is
\* strictly increasing and runs exactly from -60.0 to +12.0 (tenths of a dB).
C18_ThreeSegments ==
    (fn = "code_to_db" /\ res # Unset /\ arg \in 0..400) =>
        /\ res.k = "int"
        /\ arg <= 80 => res.v = -600 + 5 * arg
        /\ (80 < arg /\ arg <= 280) => res.v = -200 + (arg - 80)
        /\ 280 < arg => res.v = arg - 280
        /\ arg < 400 => res.v < code_to_db(arg + 1)
        /\ -600 <= res.v /\ res.v <= 120
        /\ arg = 0 => res.v = -600
        /\ arg = 400 => res.v = 120

C18_Witness ==
    fn = "code_to_db" /\ arg = 280 /\ res = IntRes(0)

\* C19: code_to_db raises its range error for every code outside 0..400 and
\* returns a value for every code inside.
C19_OutOfRange ==
    (fn = "code_to_db" /\ res # Unset) =>
        /\ arg \notin 0..400 => res = Raised
        /\ arg \in 0..400 => res.k = "int"

C19_Witness ==
    fn = "code_to_db" /\ arg = -1 /\ res = Raised

\* C20: db_to_code never fails and returns a code in 0..400; every input
\* below -60.0 gives code 0, the code of -60.0, and every input above +12.0
\* gives code 400, the code of +12.0.
C20_Clamps ==
    (fn = "db_to_code" /\ res # Unset) =>
        /\ res.k = "int"
        /\ 0 <= res.v /\ res.v <= 400
        /\ arg < -600 => res.v = 0 /\ res.v = db_to_code(-600)
        /\ arg > 120 => res.v = 400 /\ res.v = db_to_code(120)

C20_Witness ==
    fn = "db_to_code" /\ arg = 121 /\ res = IntRes(400)

\* C21: for every db of the 0.05 dB grid from -60 to +12 dB,
\* code_to_db(db_to_code(db)) is within 0.5 dB of db when db is below -20 dB
\* and within 0.1 dB of it otherwise (twentieths of a dB on both sides).
C21_GridRoundTrip ==
    (fn = "grid_round_trip" /\ res # Unset) =>
        /\ res.k = "int"
        /\ LET diff == IF 2 * res.v >= arg THEN 2 * res.v - arg ELSE arg - 2 * res.v
           IN  diff <= (IF arg < -400 THEN 10 ELSE 2)

\* -59.75 dB, halfway between codes 0 and 1, came back as -60 dB
C21_Witness ==
    fn = "grid_round_trip" /\ arg = -1195 /\ res = IntRes(-600)

\* C22: every frame _build_packet builds, whatever the address, command and
\* data values, has 9 bytes, starts 0x7B 0x7D, ends 0x7D 0x7B, and has every
\* byte in 0..255.
C22_FrameShape ==
    (fn = "build_packet" /\ fout # << >>) =>
        /\ Len(fout) = 9
        /\ fout[1] = 123 /\ fout[2] = 125
        /\ fout[8] = 125 /\ fout[9] = 123
        /\ \A k \in 1..9 : fout[k] \in 0..255

\* a frame built from a command value of 256 and a data value of -1
C22_Witness ==
    /\ fn = "build_packet" /\ fout # << >>
    /\ fargs = <<123, 256, -1, 0, 255>>
    /\ fout = <<123, 125, 123, 0, 255, 0, 255, 125, 123>>

\* C24: get_gain_db's decoding raises for no two-byte reply: it gives 0.0 dB
\* when both bytes are zero and otherwise the value of a code clamped to
\* 0..400, so the result lies in [-60, +12] dB.
C24_DecodeInRange ==
    (fn = "get_gain_db" /\ res # Unset) =>
        /\ res.k = "int"
        /\ -600 <= res.v /\ res.v <= 120
        /\ arg = 0 => res.v = 0
        /\ arg # 0 => res.v = code_to_db(IF arg > 400 THEN 400 ELSE arg)

\* the reply FF FF decoded as +12 dB
C24_Witness ==
    fn = "get_gain_db" /\ arg = 65535 /\ res = IntRes(120)

\* C23: for every db, inside [-60, +12] dB or not, the frame sent by
\* set_input_volume_db / set_output_volume_db carries in its high and low
\* bytes the code db_to_code(db), which lies in 0..400.
C23_VolumeFrame ==
    LET c == mx[1]
    IN  (c.op.name \in {"set_input_volume_db", "set_output_volume_db"} /\ c.sent # << >>) =>
            LET f == c.sent[1]
                code == f[6] * 256 + f[7]
            IN  /\ Len(c.sent) = 1
                /\ f[4] = (IF c.op.name = "set_input_volume_db"
                           THEN CMD_INPUT_VOLUME ELSE CMD_OUTPUT_VOLUME)
                /\ f[5] = c.op.ch
                /\ code = db_to_code(c.op.db)
                /\ 0 <= code /\ code <= 400
                /\ c.op.db < -600 => code = 0
                /\ c.op.db > 120 => code = 400

\* +20 dB was asked of an output and the frame carried code 400 (01 90)
C23_Witness ==
    /\ mx[1].op.name = "set_output_volume_db" /\ mx[1].op.db = 200
    /\ mx[1].pc = "done"
    /\ mx[1].sent = <<(<<DLE, STX, DeviceAddr, CMD_OUTPUT_VOLUME, mx[1].op.ch, 1, 144, STX, DLE>>)>>

\* C25: get_gain_db sends one query, a second one only after the first has
\* timed out, and never a third; when the second times out as well the
\* TimeoutError reaches the caller.
C25_RetryOnce ==
    LET c == mx[1]
        queries == {k \in 1..Len(c.sent) : c.sent[k][4] = CMD_GET_GAIN}
    IN  c.op.name = "apply_gain_delta" =>
            /\ Cardinality(queries) <= 2
            /\ Cardinality(queries) = 2 => c.timeouts >= 1
            /\ c.timeouts <= 2
            /\ (c.timeouts >= 1 /\ c.pc \in {"done", "failed"}) => Cardinality(queries) = 2
            /\ c.timeouts = 2 => (c.pc = "failed" /\ c.exc = "TimeoutError" /\ Len(c.sent) = 2)
            /\ (c.pc = "failed" /\ c.exc = "TimeoutError") => c.timeouts = 2

\* both queries timed out and the caller got the TimeoutError
C25_Witness ==
    /\ mx[1].op.name = "apply_gain_delta"
    /\ mx[1].pc = "failed" /\ mx[1].exc = "TimeoutError"
    /\ mx[1].timeouts = 2 /\ Len(mx[1].sent) = 2

\* C26: recall("F00") sends the load-preset frame of the factory preset (user
\* flag 0, index 0) and recall("U0N") that of user preset N (user flag 1,
\* index N); each sends exactly one frame and reads no reply.
C26_Recall ==
    LET c == mx[1]
        p == c.op.preset
    IN  (/\ c.op.name = "recall"
         /\ \/ p = F00
            \/ Len(p) = 3 /\ p[1] = "U" /\ p[2] = "0" /\ p[3] \in Digits) =>
            /\ Len(c.sent) <= 1
            /\ c.pc = "done" =>
                  c.sent = <<(<<DLE, STX, DeviceAddr, CMD_LOAD_PRESET,
                                IF p = F00 THEN 0 ELSE 1,
                                IF p = F00 THEN 0 ELSE DigitVal(p[3]),
                                0, STX, DLE>>)>>
            /\ pend[1] = << >> /\ c.pc \notin {"settle", "recv"}
            /\ c.exc \in {"none", "ConnectionError"}

\* recall("U02") has sent the frame of user preset 2 and returned
C26_Witness ==
    /\ mx[1].op.name = "recall" /\ mx[1].op.preset = <<"U", "0", "2">>
    /\ mx[1].pc = "done"
    /\ mx[1].sent = <<(<<DLE, STX, DeviceAddr, CMD_LOAD_PRESET, 1, 2, 0, STX, DLE>>)>>

\* C27: recall of a preset name that is neither F00 nor a user preset of the
\* supported range U01..U03 is rejected with ValueError and sends no frame.
C27_RejectOutOfRange ==
    (mx[1].op.name = "recall" /\ mx[1].op.preset \notin SupportedPresets) =>
        /\ mx[1].sent = << >>
        /\ mx[1].pc = "failed" /\ mx[1].exc = "ValueError"

\* C29: the poll loop of the power-off wait ends only when a poll returns
\* Standby or when the budget is used up: a poll that raises, or returns
\* another state or none, is followed by a 1.5 s wait and, while budget
\* remains, another poll; once a poll has returned Standby, or the budget is
\* used up, no get_power is issued any more.
C29_PollLoop ==
    [][LET standby == /\ pjPc = "return"
                      /\ get_power_search(resp) # 0
                      /\ resp[get_power_search(resp)] = "0"
       IN  /\ (seqPc = "poll_wait" /\ seqPc' # "poll_wait") =>
                 IF standby THEN seqPc' = "done" /\ ready' = "true"
                 ELSE seqPc' = "poll_sleep" /\ ready' = ready /\ now' = now
           /\ seqPc = "poll_sleep" =>
                 seqPc' = "poll_test" /\ now' = now + PollSleepDs
           /\ seqPc = "poll_test" =>
                 IF now < pollEnd
                 THEN seqPc' = "poll_wait" /\ cmd' = CmdPowerQuery /\ op' = "get_power"
                 ELSE seqPc' = "done" /\ ready' = "false" /\ op' = "none"
           /\ seqPc = "done" => (seqPc' = "done" /\ op' = "none")]_vars

\* a poll answered Cooling, the loop slept, and the next poll is under way
C29_Witness ==
    /\ seqPc = "poll_wait" /\ op = "get_power"
    /\ st = IntRes(2)
    /\ now >= pollStart + PollSleepDs /\ now < pollEnd

\* C30: when pj.power(True) raises during the power-on sequence, the error
\* text is published and the sequence goes on to its end without raising;
\* "Proiettore -> ON" is published after the power command only when the
\* command did not raise.
C30_PowerFailureReported ==
    [][(seqPc = "power_wait" /\ seqPc' # "power_wait") =>
          /\ seqPc' = "done" /\ seqExc' = "none"
          /\ pjPc = "raised" => statusText' = TxtError
          /\ statusText' = TxtProjectorOn => pjPc = "return"]_vars

\* the power-on sequence has ended after a power command that raised
C30_Witness ==
    /\ seqOn /\ seqPc = "done" /\ seqExc = "none"
    /\ relayOk \in {"true", "false"}
    /\ statusText = TxtError

\* C28: no mutual exclusion across power sequences: a power request is taken
\* on whatever the sequences before it are doing, so that after a power-on
\* and then a power-off request both sequences are in progress at once and
\* the projector can be sent POWR 1 after POWR 0.  Each sequence writes at
\* most one power command, that of its own request.
C28_NoMutualExclusion ==
    /\ Len(reqs) < MaxRuns => ENABLED projector_power
    /\ Len(pjLog) <= Len(reqs)
    /\ \A v \in BOOLEAN :
          Cardinality({k \in 1..Len(pjLog) : pjLog[k] = v})
              <= Cardinality({k \in 1..Len(reqs) : reqs[k] = v})

\* power-on was requested first and power-off last; both sequences are in
\* progress and the projector got POWR 0 and then POWR 1
C28_Witness ==
    /\ reqs = <<TRUE, FALSE>>
    /\ InProgress = {1, 2}
    /\ pjLog = <<FALSE, TRUE>>

(***************************************************************************)
(* Echo handling of _read_reply_packet.                                    *)
(***************************************************************************)
\* C31: when the link echoes the sent frame before the reply and expect_echo
\* is set, send_command returns the device's reply (its first answ_byte bytes),
\* not bytes of the echoed frame.
C31_EchoDiscarded ==
    (/\ mixer = "echo"
     /\ mx[1].op.name = "send_command"
     /\ mx[1].pc = "done"
     /\ mx[1].op.on)
    => LET n == mx[1].op.ch
       IN  /\ mx[1].ret \in {parse_packet(SubSeq(r, 1, n)) : r \in MixerReplies}
           /\ mx[1].ret # parse_packet(SubSeq(mx[1].pkt, 1, n))

(***************************************************************************)
(* Malformed banners.                                                      *)
(***************************************************************************)
\* the banner format of the protocol: PJLINK, a blank, the flag 0 or 1 and,
\* optionally, a blank and a nonce of hexadecimal digits, up to the line's end
protocol_banner(line) ==
    LET t == Strip(line)
        n == Len(PJLINK)
    IN  /\ StartsAt(t, 1, PJLINK)
        /\ Len(t) >= n + 2
        /\ t[n + 1] = " "
        /\ t[n + 2] \in {"0", "1"}
        /\ \/ Len(t) = n + 2
           \/ /\ Len(t) >= n + 4
              /\ t[n + 3] = " "
              /\ \A k \in (n + 4)..Len(t) : t[k] \in HexChars

\* C32: an attempt that read a banner not of the protocol's format fails with
\* the banner error and writes no command payload on its connection.
C32_MalformedBannerFails ==
    (banner # << >> /\ ~protocol_banner(banner))
    => (exc = "BannerError" /\ connCmds = 0)

(***************************************************************************)
(* Replies and the queries they answer.                                    *)
(***************************************************************************)
\* C33: the reply send_command returned last is the device's answer to the
\* query sent last, that is to the frame of the same call, also when the query
\* was sent again after a timeout.
C33_ReplyAssociation ==
    (/\ mx[1].ret # << >>
     /\ \/ mx[1].pc = "done"
        \/ mx[1].pc \in {"spacing", "sleep"} /\ mx[1].try = 1)
    => mx[1].ret = parse_packet(numbered_reply(QueriesSent(1)))

(***************************************************************************)
(* get_gain_db's decoding, reply by reply.                                 *)
(***************************************************************************)
\* C34: for every reply (hi, lo) get_gain_db returns 0.0 dB when hi = lo = 0,
\* which is not the -60 dB of code 0, and otherwise the value of the code
\* min(400, 256 * hi + lo); the low-byte fallback never changes the code.
C34_DecodeByReply ==
    (fn = "get_gain_db" /\ res # Unset) =>
        LET hi == arg \div 256
            lo == arg % 256
        IN  /\ (hi = 0 /\ lo = 0) => (res = IntRes(0) /\ res # IntRes(code_to_db(0)))
            /\ ~(hi = 0 /\ lo = 0) => res = IntRes(code_to_db(Min(400, 256 * hi + lo)))
            /\ get_gain_db_code(hi, lo) = Min(400, 256 * hi + lo)

\* the reply 00 00, the register at code 0, reported as 0.0 dB
C34_Witness ==
    fn = "get_gain_db" /\ arg = 0 /\ res = IntRes(0)

C37_Issued ==
    {t \in Tokens :
        \E k \in 1..Len(auth.log) :
            /\ auth.log[k].ev = "login"
            /\ auth.log[k].ret = t
            /\ check_pin(auth.cfg, auth.log[k].pin)
            /\ \A j \in (k + 1)..Len(auth.log) : auth.log[j].ev # "logout"}

\* C37: require_operator accepts a cookie exactly when it is a token returned
\* by a login whose PIN check passed with no logout since, so that a logout
\* leaves no token accepted; a login with the empty PIN returns no token.
C37_Tokens ==
    /\ \A t \in Cookies : require_operator_accepts(auth.valid, t) <=> t \in C37_Issued
    /\ \A k \in 1..Len(auth.log) :
          (auth.log[k].ev = "login" /\ auth.log[k].pin = "") => auth.log[k].ret = "None"
    /\ (auth.req.n = Len(auth.log)) => (auth.req.ok <=> auth.req.t \in C37_Issued)

\* two sessions logged in, one logged out, and the other's token is refused
C37_Witness ==
    /\ Len(auth.log) = 3
    /\ auth.log[1].ret = "tA" /\ auth.log[2].ret = "tB" /\ auth.log[3].ev = "logout"
    /\ auth.req = [t |-> "tB", ok |-> FALSE, n |-> 3]

(***************************************************************************)
(* Termination of PowerOn.                                                 *)
(***************************************************************************)
\* C36: a PowerOn run always ends, whatever the projector does: the run makes
\* at most retries + 1 projector attempts, and from the relay call on it
\* reaches its end (or the exception of the relay call).
C36_PowerOnTerminates ==
    /\ [](seqOn => tries <= retries + 1)
    /\ (seqOn /\ seqPc = "relay") ~> (seqPc \in {"done", "raised"})

\* a run against a projector that failed the last attempt of power(True) has ended
C36_Witness ==
    /\ seqOn /\ seqPc = "done"
    /\ retries = MaxRetries
    /\ statusText = power_sequence_power_text(TRUE)

(***************************************************************************)
(* The scheduler's next occurrence.                                        *)
(***************************************************************************)
\* the instant u is at the time of day txt on a weekday named in the day list
C38_Occurs(u) ==
    /\ u % TicksPerDay
         = (parse_time(txt).hour * 60 + parse_time(txt).minute) * TicksPerMinute
    /\ \E i \in 1..Len(fargs[2]) :
         lower(fargs[2][i]) = DAY_ORDER[((u \div TicksPerDay) % 7) + 1]

\* C38: _next_occurrence returns the earliest instant later than now that is
\* at the given time on a weekday of the list; it returns None exactly when
\* the list names no weekday, and never an instant that is now or past.
C38_NextOccurrence ==
    (fn = "next_occurrence" /\ res # Unset) =>
        LET t == instant(fargs[1])
            named == \E i \in 1..Len(fargs[2]), k \in 1..7 :
                        lower(fargs[2][i]) = DAY_ORDER[k]
        IN  /\ res = NoRes <=> ~named
            /\ res # NoRes =>
                  /\ res.k = "int"
                  /\ res.v > t
                  /\ C38_Occurs(res.v)
                  /\ \A u \in (t + 1)..(res.v - 1) : ~C38_Occurs(u)

\* Monday 07:30:00 sharp and a list of Monday alone: the Monday a week later
C38_Witness ==
    /\ fn = "next_occurrence"
    /\ txt = <<"0", "7", ":", "3", "0">>
    /\ fargs = <<[wd |-> 0, min |-> 450, frac |-> 0], <<Mon>>>>
    /\ res = IntRes(7 * TicksPerDay + 450 * TicksPerMinute)
====
